---- MODULE Spec2Model ----
(***************************************************************************)
(* Model of the Jira-GitHub alignment verification handler                 *)
(*   app.post("/mcp/tools/jira-github/verify-alignment", ...)              *)
(* of webapp/server/index.cjs, with the collaborators it calls             *)
(* (jiraAuthHeader, githubAuthService, billingService, the Jira REST API). *)
(*                                                                         *)
(* Strings are sequences of one-character strings, so that toLowerCase,    *)
(* includes, replace and split are computed as JavaScript computes them.   *)
(* Time is counted in whole days.                                          *)
(***************************************************************************)
EXTENDS Integers, Sequences, FiniteSets, TLC

(***************************************************************************)
(* String primitives                                                       *)
(***************************************************************************)
UpperChars == <<"A", "B", "C", "D", "E", "F", "G", "H", "I", "J", "K", "L", "M", "N", "O", "P", "Q", "R", "S", "T", "U", "V", "W", "X", "Y", "Z">>

LowerChars == <<"a", "b", "c", "d", "e", "f", "g", "h", "i", "j", "k", "l", "m", "n", "o", "p", "q", "r", "s", "t", "u", "v", "w", "x", "y", "z">>

\* String.prototype.toLowerCase / toUpperCase on one character
lowerOf == [c \in {UpperChars[i] : i \in 1..Len(UpperChars)} |->
              LowerChars[CHOOSE i \in 1..Len(UpperChars) : UpperChars[i] = c]]

upperOf == [c \in {LowerChars[i] : i \in 1..Len(LowerChars)} |->
              UpperChars[CHOOSE i \in 1..Len(LowerChars) : LowerChars[i] = c]]

LowerChar(c) == IF c \in DOMAIN lowerOf THEN lowerOf[c] ELSE c

UpperChar(c) == IF c \in DOMAIN upperOf THEN upperOf[c] ELSE c

toLowerCase(s) == [i \in 1..Len(s) |-> LowerChar(s[i])]

toUpperCase(s) == [i \in 1..Len(s) |-> UpperChar(s[i])]

\* String.prototype.includes: sub occurs in s as a contiguous substring
includes(s, sub) ==
  \E i \in 0..(Len(s) - Len(sub)) : \A j \in 1..Len(sub) : s[i + j] = sub[j]

startsWith(s, pre) == Len(s) >= Len(pre) /\ \A j \in 1..Len(pre) : s[j] = pre[j]

\* String.prototype.replace(ch, rep) with a string pattern: the FIRST
\* occurrence of the character ch only
replaceFirst(s, ch, rep) ==
  IF \E i \in 1..Len(s) : s[i] = ch
  THEN LET i == CHOOSE k \in 1..Len(s) : s[k] = ch /\ \A j \in 1..(k - 1) : s[j] # ch
       IN  SubSeq(s, 1, i - 1) \o rep \o SubSeq(s, i + 1, Len(s))
  ELSE s

\* Array.prototype.slice(0, n)
slice(arr, n) == SubSeq(arr, 1, IF Len(arr) < n THEN Len(arr) ELSE n)

Range(arr) == {arr[i] : i \in 1..Len(arr)}

\* JavaScript null / undefined for an optional string
Null == <<"null">>

(***************************************************************************)
(* Keyword extraction (index.cjs 2236-2245)                                *)
(***************************************************************************)
stopWords ==
  << <<"t", "h", "e">>, <<"a", "n", "d">>, <<"o", "r">>, <<"f", "o", "r">>, <<"w", "i", "t", "h">>, <<"t", "h", "a", "t">>, <<"t", "h", "i", "s">>, <<"c", "a", "n">>,
     <<"y", "o", "u">>, <<"a", "s", "k">>, <<"w", "a", "y">>, <<"c", "a", "l", "l", "e", "d">>, <<"o", "n">>, <<"i", "n">>, <<"t", "o">>, <<"a">>, <<"a", "n">> >>

\* the character class [\s,.'"()] of the split pattern
SplitChars == {" ", "\t", "\n", "\r", ",", ".", "'", "\"", "(", ")"}

\* String.prototype.split(/[\s,.'"()]+/): the pieces between maximal runs of
\* separators, an empty piece included where the string starts or ends with one
RECURSIVE splitRec(_, _, _, _, _)
splitRec(s, i, acc, cur, inSep) ==
  IF i > Len(s) THEN Append(acc, cur)
  ELSE IF s[i] \in SplitChars
       THEN IF inSep THEN splitRec(s, i + 1, acc, cur, TRUE)
            ELSE splitRec(s, i + 1, Append(acc, cur), <<>>, TRUE)
       ELSE splitRec(s, i + 1, acc, Append(cur, s[i]), FALSE)

split(s) == splitRec(s, 1, <<>>, <<>>, FALSE)

\* .filter((word, index, arr) => arr.indexOf(word) === index)
RECURSIVE firstOccurrences(_, _)
firstOccurrences(arr, i) ==
  IF i > Len(arr) THEN <<>>
  ELSE (IF \E j \in 1..(i - 1) : arr[j] = arr[i] THEN <<>> ELSE <<arr[i]>>)
       \o firstOccurrences(arr, i + 1)

MaxKeywords == 8

MinWordLength == 3

\* isKeyword without the length test
isKeywordOfAnyLength(word) == word \notin Range(stopWords)

isKeyword(word) == Len(word) >= MinWordLength /\ word \notin Range(stopWords)

\* const taskStatus = task.fields?.status?.name || 'Unknown'
taskStatusOf(task) == IF task.status = <<>> THEN <<"U", "n", "k", "n", "o", "w", "n">> ELSE task.status

\* const taskSummary = task.fields?.summary || 'No summary'
taskSummaryOf(task) == IF task.summary = <<>> THEN <<"N", "o", " ", "s", "u", "m", "m", "a", "r", "y">> ELSE task.summary

summaryWords(taskSummary) ==
  slice(firstOccurrences(SelectSeq(split(toLowerCase(taskSummary)), isKeyword), 1),
        MaxKeywords)

(***************************************************************************)
(* Evidence matching (index.cjs 2257-2336)                                 *)
(* A commit is [message, date], a pull request [title, body, state], a     *)
(* branch [name], a task [key, status, summary].                           *)
(***************************************************************************)
MinKeywordMatches == 2

\* summaryWords.filter(keyword => text.includes(keyword)).length
keywordMatches(words, text) ==
  Cardinality({i \in 1..Len(words) : includes(text, words[i])})

verificationKeywords ==
  << <<"v", "e", "r", "i", "f", "y">>, <<"c", "o", "m", "m", "i", "t">>, <<"a", "l", "i", "g", "n", "m", "e", "n", "t">>, <<"c", "h", "a", "n", "g", "e", "l", "i", "s", "t">>, <<"c", "o", "d", "e">>, <<"d", "e", "l", "i", "v", "e", "r", "e", "d">> >>

\* the filter callback of commitMatches
commitMatch(taskKey, words, commit) ==
  LET message == toLowerCase(commit.message)
      taskKeyLower == toLowerCase(taskKey)
  IN  \/ includes(message, toLowerCase(taskKey))
      \/ includes(message, toLowerCase(replaceFirst(taskKey, "-", <<>>)))
      \/ includes(message, toLowerCase(replaceFirst(taskKey, "-", <<" ">>)))
      \/ keywordMatches(words, message) >= MinKeywordMatches
      \/ /\ includes(taskKeyLower, <<"r", "o", "c", "-", "5">>) \/ includes(taskKeyLower, <<"r", "o", "c", "-", "6">>)
         /\ keywordMatches(verificationKeywords, message) >= MinKeywordMatches

\* the filter callback of prMatches
prMatch(taskKey, words, pr) ==
  LET title == toLowerCase(pr.title)
      body == toLowerCase(pr.body)
      combined == title \o <<" ">> \o body
  IN  \/ includes(title, toLowerCase(taskKey))
      \/ includes(body, toLowerCase(taskKey))
      \/ keywordMatches(words, combined) >= MinKeywordMatches

\* the filter callback of branchMatches
branchMatch(taskKey, branch) ==
  LET name == toLowerCase(branch.name)
  IN  \/ includes(name, toLowerCase(taskKey))
      \/ includes(name, toLowerCase(replaceFirst(taskKey, "-", <<>>)))

MaxEvidenceShown == 5

\* c.commit.message.split('\n')[0]
firstLine(msg) ==
  IF \E i \in 1..Len(msg) : msg[i] = "\n"
  THEN SubSeq(msg, 1, (CHOOSE k \in 1..Len(msg) :
                         msg[k] = "\n" /\ \A j \in 1..(k - 1) : msg[j] # "\n") - 1)
  ELSE msg

commitMatches(task, commits) ==
  LET words == summaryWords(taskSummaryOf(task))
      matchesTask(c) == commitMatch(task.key, words, c)
  IN  SelectSeq(commits, matchesTask)

prMatches(task, prs) ==
  LET words == summaryWords(taskSummaryOf(task))
      matchesTask(p) == prMatch(task.key, words, p)
  IN  SelectSeq(prs, matchesTask)

branchMatches(task, branches) ==
  LET matchesTask(b) == branchMatch(task.key, b)
  IN  SelectSeq(branches, matchesTask)

\* evidence.commits = commitMatches.slice(0, 5).map(...)
evidenceCommits(task, commits) ==
  LET shown == slice(commitMatches(task, commits), MaxEvidenceShown)
  IN  [i \in 1..Len(shown) |-> [message |-> firstLine(shown[i].message),
                                date |-> shown[i].date]]

\* evidence.prs = prMatches.slice(0, 5).map(...)
evidencePrs(task, prs) ==
  LET shown == slice(prMatches(task, prs), MaxEvidenceShown)
  IN  [i \in 1..Len(shown) |-> [title |-> shown[i].title, state |-> shown[i].state]]

\* evidence.branches = branchMatches.map(b => b.name)
evidenceBranches(task, branches) ==
  LET found == branchMatches(task, branches)
  IN  [i \in 1..Len(found) |-> found[i].name]

\* .filter((item, index, self) => index === self.findIndex(t => t.path === item.path))
\* .slice(0, 5)
RECURSIVE firstByPath(_, _)
firstByPath(items, i) ==
  IF i > Len(items) THEN <<>>
  ELSE (IF \E j \in 1..(i - 1) : items[j].path = items[i].path THEN <<>> ELSE <<items[i]>>)
       \o firstByPath(items, i + 1)

dedupeCodeMatches(items) == slice(firstByPath(items, 1), MaxEvidenceShown)

\* hasEvidence with the code matches left out of the disjunction
hasEvidenceWithoutCodeMatches(evidence) ==
  \/ Len(evidence.commits) > 0
  \/ Len(evidence.prs) > 0
  \/ Len(evidence.branches) > 0

\* hasEvidence with the branches left out of the disjunction
hasEvidenceWithoutBranches(evidence) ==
  \/ Len(evidence.commits) > 0
  \/ Len(evidence.prs) > 0
  \/ Len(evidence.codeMatches) > 0

hasEvidence(evidence) ==
  \/ Len(evidence.commits) > 0
  \/ Len(evidence.prs) > 0
  \/ Len(evidence.branches) > 0
  \/ Len(evidence.codeMatches) > 0

(***************************************************************************)
(* Alignment rules (index.cjs 2371-2445)                                   *)
(***************************************************************************)
isDone(taskStatus) ==
  LET statusLower == toLowerCase(taskStatus)
  IN  \/ includes(statusLower, <<"d", "o", "n", "e">>)
      \/ includes(statusLower, <<"c", "l", "o", "s", "e", "d">>)
      \/ includes(statusLower, <<"r", "e", "s", "o", "l", "v", "e", "d">>)

isInProgress(taskStatus) ==
  LET statusLower == toLowerCase(taskStatus)
  IN  \/ includes(statusLower, <<"p", "r", "o", "g", "r", "e", "s", "s">>)
      \/ includes(statusLower, <<"i", "n", " ", "p", "r", "o", "g", "r", "e", "s", "s">>)
      \/ includes(statusLower, <<"s", "e", "l", "e", "c", "t", "e", "d", " ", "f", "o", "r", " ", "d", "e", "v", "e", "l", "o", "p", "m", "e", "n", "t">>)

isToDo(taskStatus) ==
  LET statusLower == toLowerCase(taskStatus)
  IN  \/ includes(statusLower, <<"t", "o", " ", "d", "o">>)
      \/ includes(statusLower, <<"o", "p", "e", "n">>)
      \/ includes(statusLower, <<"b", "a", "c", "k", "l", "o", "g">>)

completionKeywords ==
  << <<"f", "i", "x">>, <<"c", "o", "m", "p", "l", "e", "t", "e">>, <<"d", "o", "n", "e">>, <<"f", "i", "n", "i", "s", "h">>, <<"i", "m", "p", "l", "e", "m", "e", "n", "t">>, <<"r", "e", "s", "o", "l", "v", "e">>,
     <<"f", "e", "a", "t", ":">>, <<"a", "d", "d">>, <<"i", "n", "t", "e", "l", "l", "i", "g", "e", "n", "t">>, <<"v", "e", "r", "i", "f", "i", "c", "a", "t", "i", "o", "n">> >>

RecentDays == 30

\* recentCommits without the test of the commit date
recentCommitsOfAnyAge(evidence, now) == evidence.commits

\* evidence.commits.filter(c => daysAgo < 30)
recentCommits(evidence, now) ==
  LET isRecent(c) == now - c.date < RecentDays
  IN  SelectSeq(evidence.commits, isRecent)

hasCompletionKeywords(evidence, now) ==
  \E i \in 1..Len(recentCommits(evidence, now)) :
    \E k \in 1..Len(completionKeywords) :
      includes(toLowerCase(recentCommits(evidence, now)[i].message), completionKeywords[k])

\* hasMergedPRs testing for a state the pull-request list never reports
hasMergedPRsByMergedState(evidence) ==
  \E i \in 1..Len(evidence.prs) : evidence.prs[i].state = "merged"

hasMergedPRs(evidence) ==
  \E i \in 1..Len(evidence.prs) : evidence.prs[i].state = "closed"

\* the chain without Rule 3: an In-Progress task without evidence keeps the
\* initial values
analyzeAlignmentWithoutRule3(taskStatus, evidence, now) ==
  IF isDone(taskStatus) /\ ~hasEvidence(evidence) THEN
    [alignment |-> "misaligned",
     warning |-> <<"T", "a", "s", "k", " ", "m", "a", "r", "k", "e", "d", " ", "a", "s", " ">> \o taskStatus \o <<" ", "b", "u", "t", " ", "n", "o", " ", "c", "o", "d", "e", " ", "e", "v", "i", "d", "e", "n", "c", "e", " ", "f", "o", "u", "n", "d">>,
     recommendation |-> <<"V", "e", "r", "i", "f", "y", " ", "t", "a", "s", "k", " ", "s", "t", "a", "t", "u", "s", " ", "o", "r", " ", "s", "e", "a", "r", "c", "h", " ", "f", "o", "r", " ", "a", "l", "t", "e", "r", "n", "a", "t", "i", "v", "e", " ", "t", "a", "s", "k", " ", "k", "e", "y", "s", "/", "d", "e", "s", "c", "r", "i", "p", "t", "i", "o", "n", "s">>]
  ELSE IF isDone(taskStatus) /\ hasEvidence(evidence) THEN
    [alignment |-> "aligned", warning |-> Null, recommendation |-> Null]
  ELSE IF isInProgress(taskStatus) /\ hasEvidence(evidence) THEN
    IF /\ Len(evidence.commits) > 0
       /\ Len(recentCommits(evidence, now)) > 0
       /\ hasCompletionKeywords(evidence, now) \/ hasMergedPRs(evidence)
    THEN
      [alignment |-> "misaligned",
       warning |-> <<"T", "a", "s", "k", " ", "I", "N", " ", "P", "R", "O", "G", "R", "E", "S", "S", " ", "b", "u", "t", " ", "c", "o", "d", "e", " ", "a", "p", "p", "e", "a", "r", "s", " ", "c", "o", "m", "p", "l", "e", "t", "e", " ", "(", "c", "o", "m", "m", "i", "t", "s", " ", "w", "i", "t", "h", " ", "c", "o", "m", "p", "l", "e", "t", "i", "o", "n", " ", "k", "e", "y", "w", "o", "r", "d", "s", " ", "f", "o", "u", "n", "d">>
                   \o (IF hasMergedPRs(evidence) THEN <<",", " ", "P", "R", "s", " ", "m", "e", "r", "g", "e", "d">> ELSE <<>>) \o <<")">>,
       recommendation |-> <<"U", "p", "d", "a", "t", "e", " ", "J", "i", "r", "a", " ", "s", "t", "a", "t", "u", "s", " ", "t", "o", " ", "D", "O", "N", "E">>]
    ELSE
      [alignment |-> "aligned", warning |-> Null, recommendation |-> Null]
  ELSE IF isToDo(taskStatus) /\ hasEvidence(evidence) THEN
    [alignment |-> "misaligned",
     warning |-> <<"T", "a", "s", "k", " ", "T", "O", " ", "D", "O", " ", "b", "u", "t", " ", "c", "o", "d", "e", " ", "a", "l", "r", "e", "a", "d", "y", " ", "e", "x", "i", "s", "t", "s">>,
     recommendation |-> <<"U", "p", "d", "a", "t", "e", " ", "J", "i", "r", "a", " ", "s", "t", "a", "t", "u", "s", " ", "t", "o", " ", "I", "N", " ", "P", "R", "O", "G", "R", "E", "S", "S", " ", "o", "r", " ", "D", "O", "N", "E">>]
  ELSE
    [alignment |-> "aligned", warning |-> Null, recommendation |-> Null]

\* the chain with Rule 6 taken by every remaining status that has evidence
analyzeAlignmentWithoutToDoTest(taskStatus, evidence, now) ==
  IF isDone(taskStatus) /\ ~hasEvidence(evidence) THEN
    [alignment |-> "misaligned",
     warning |-> <<"T", "a", "s", "k", " ", "m", "a", "r", "k", "e", "d", " ", "a", "s", " ">> \o taskStatus \o <<" ", "b", "u", "t", " ", "n", "o", " ", "c", "o", "d", "e", " ", "e", "v", "i", "d", "e", "n", "c", "e", " ", "f", "o", "u", "n", "d">>,
     recommendation |-> <<"V", "e", "r", "i", "f", "y", " ", "t", "a", "s", "k", " ", "s", "t", "a", "t", "u", "s", " ", "o", "r", " ", "s", "e", "a", "r", "c", "h", " ", "f", "o", "r", " ", "a", "l", "t", "e", "r", "n", "a", "t", "i", "v", "e", " ", "t", "a", "s", "k", " ", "k", "e", "y", "s", "/", "d", "e", "s", "c", "r", "i", "p", "t", "i", "o", "n", "s">>]
  ELSE IF isDone(taskStatus) /\ hasEvidence(evidence) THEN
    [alignment |-> "aligned", warning |-> Null, recommendation |-> Null]
  ELSE IF isInProgress(taskStatus) /\ ~hasEvidence(evidence) THEN
    [alignment |-> "misaligned",
     warning |-> <<"T", "a", "s", "k", " ", "m", "a", "r", "k", "e", "d", " ", "a", "s", " ">> \o taskStatus
                 \o <<" ", "b", "u", "t", " ", "n", "o", " ", "c", "o", "d", "e", " ", "e", "v", "i", "d", "e", "n", "c", "e", " ", "f", "o", "u", "n", "d", " ", "(", "n", "o", " ", "c", "o", "m", "m", "i", "t", "s", ",", " ", "b", "r", "a", "n", "c", "h", "e", "s", ",", " ", "o", "r", " ", "P", "R", "s", ")">>,
     recommendation |-> <<"T", "a", "s", "k", " ", "m", "a", "y", " ", "n", "o", "t", " ", "h", "a", "v", "e", " ", "b", "e", "e", "n", " ", "s", "t", "a", "r", "t", "e", "d", " ", "y", "e", "t", ",", " ", "o", "r", " ", "e", "v", "i", "d", "e", "n", "c", "e", " ", "i", "s", " ", "i", "n", " ", "a", " ", "d", "i", "f", "f", "e", "r", "e", "n", "t", " ", "r", "e", "p", "o", "s", "i", "t", "o", "r", "y">>]
  ELSE IF isInProgress(taskStatus) /\ hasEvidence(evidence) THEN
    IF /\ Len(evidence.commits) > 0
       /\ Len(recentCommits(evidence, now)) > 0
       /\ hasCompletionKeywords(evidence, now) \/ hasMergedPRs(evidence)
    THEN
      [alignment |-> "misaligned",
       warning |-> <<"T", "a", "s", "k", " ", "I", "N", " ", "P", "R", "O", "G", "R", "E", "S", "S", " ", "b", "u", "t", " ", "c", "o", "d", "e", " ", "a", "p", "p", "e", "a", "r", "s", " ", "c", "o", "m", "p", "l", "e", "t", "e", " ", "(", "c", "o", "m", "m", "i", "t", "s", " ", "w", "i", "t", "h", " ", "c", "o", "m", "p", "l", "e", "t", "i", "o", "n", " ", "k", "e", "y", "w", "o", "r", "d", "s", " ", "f", "o", "u", "n", "d">>
                   \o (IF hasMergedPRs(evidence) THEN <<",", " ", "P", "R", "s", " ", "m", "e", "r", "g", "e", "d">> ELSE <<>>) \o <<")">>,
       recommendation |-> <<"U", "p", "d", "a", "t", "e", " ", "J", "i", "r", "a", " ", "s", "t", "a", "t", "u", "s", " ", "t", "o", " ", "D", "O", "N", "E">>]
    ELSE
      [alignment |-> "aligned", warning |-> Null, recommendation |-> Null]
  ELSE IF hasEvidence(evidence) THEN
    [alignment |-> "misaligned",
     warning |-> <<"T", "a", "s", "k", " ", "T", "O", " ", "D", "O", " ", "b", "u", "t", " ", "c", "o", "d", "e", " ", "a", "l", "r", "e", "a", "d", "y", " ", "e", "x", "i", "s", "t", "s">>,
     recommendation |-> <<"U", "p", "d", "a", "t", "e", " ", "J", "i", "r", "a", " ", "s", "t", "a", "t", "u", "s", " ", "t", "o", " ", "I", "N", " ", "P", "R", "O", "G", "R", "E", "S", "S", " ", "o", "r", " ", "D", "O", "N", "E">>]
  ELSE
    [alignment |-> "aligned", warning |-> Null, recommendation |-> Null]

\* the chain with Rule 6 moved in front of Rule 1
analyzeAlignmentToDoFirst(taskStatus, evidence, now) ==
  IF isToDo(taskStatus) /\ hasEvidence(evidence) THEN
    [alignment |-> "misaligned",
     warning |-> <<"T", "a", "s", "k", " ", "T", "O", " ", "D", "O", " ", "b", "u", "t", " ", "c", "o", "d", "e", " ", "a", "l", "r", "e", "a", "d", "y", " ", "e", "x", "i", "s", "t", "s">>,
     recommendation |-> <<"U", "p", "d", "a", "t", "e", " ", "J", "i", "r", "a", " ", "s", "t", "a", "t", "u", "s", " ", "t", "o", " ", "I", "N", " ", "P", "R", "O", "G", "R", "E", "S", "S", " ", "o", "r", " ", "D", "O", "N", "E">>]
  ELSE IF isDone(taskStatus) /\ ~hasEvidence(evidence) THEN
    [alignment |-> "misaligned",
     warning |-> <<"T", "a", "s", "k", " ", "m", "a", "r", "k", "e", "d", " ", "a", "s", " ">> \o taskStatus \o <<" ", "b", "u", "t", " ", "n", "o", " ", "c", "o", "d", "e", " ", "e", "v", "i", "d", "e", "n", "c", "e", " ", "f", "o", "u", "n", "d">>,
     recommendation |-> <<"V", "e", "r", "i", "f", "y", " ", "t", "a", "s", "k", " ", "s", "t", "a", "t", "u", "s", " ", "o", "r", " ", "s", "e", "a", "r", "c", "h", " ", "f", "o", "r", " ", "a", "l", "t", "e", "r", "n", "a", "t", "i", "v", "e", " ", "t", "a", "s", "k", " ", "k", "e", "y", "s", "/", "d", "e", "s", "c", "r", "i", "p", "t", "i", "o", "n", "s">>]
  ELSE IF isDone(taskStatus) /\ hasEvidence(evidence) THEN
    [alignment |-> "aligned", warning |-> Null, recommendation |-> Null]
  ELSE IF isInProgress(taskStatus) /\ ~hasEvidence(evidence) THEN
    [alignment |-> "misaligned",
     warning |-> <<"T", "a", "s", "k", " ", "m", "a", "r", "k", "e", "d", " ", "a", "s", " ">> \o taskStatus
                 \o <<" ", "b", "u", "t", " ", "n", "o", " ", "c", "o", "d", "e", " ", "e", "v", "i", "d", "e", "n", "c", "e", " ", "f", "o", "u", "n", "d", " ", "(", "n", "o", " ", "c", "o", "m", "m", "i", "t", "s", ",", " ", "b", "r", "a", "n", "c", "h", "e", "s", ",", " ", "o", "r", " ", "P", "R", "s", ")">>,
     recommendation |-> <<"T", "a", "s", "k", " ", "m", "a", "y", " ", "n", "o", "t", " ", "h", "a", "v", "e", " ", "b", "e", "e", "n", " ", "s", "t", "a", "r", "t", "e", "d", " ", "y", "e", "t", ",", " ", "o", "r", " ", "e", "v", "i", "d", "e", "n", "c", "e", " ", "i", "s", " ", "i", "n", " ", "a", " ", "d", "i", "f", "f", "e", "r", "e", "n", "t", " ", "r", "e", "p", "o", "s", "i", "t", "o", "r", "y">>]
  ELSE IF isInProgress(taskStatus) /\ hasEvidence(evidence) THEN
    IF /\ Len(evidence.commits) > 0
       /\ Len(recentCommits(evidence, now)) > 0
       /\ hasCompletionKeywords(evidence, now) \/ hasMergedPRs(evidence)
    THEN
      [alignment |-> "misaligned",
       warning |-> <<"T", "a", "s", "k", " ", "I", "N", " ", "P", "R", "O", "G", "R", "E", "S", "S", " ", "b", "u", "t", " ", "c", "o", "d", "e", " ", "a", "p", "p", "e", "a", "r", "s", " ", "c", "o", "m", "p", "l", "e", "t", "e", " ", "(", "c", "o", "m", "m", "i", "t", "s", " ", "w", "i", "t", "h", " ", "c", "o", "m", "p", "l", "e", "t", "i", "o", "n", " ", "k", "e", "y", "w", "o", "r", "d", "s", " ", "f", "o", "u", "n", "d">>
                   \o (IF hasMergedPRs(evidence) THEN <<",", " ", "P", "R", "s", " ", "m", "e", "r", "g", "e", "d">> ELSE <<>>) \o <<")">>,
       recommendation |-> <<"U", "p", "d", "a", "t", "e", " ", "J", "i", "r", "a", " ", "s", "t", "a", "t", "u", "s", " ", "t", "o", " ", "D", "O", "N", "E">>]
    ELSE
      [alignment |-> "aligned", warning |-> Null, recommendation |-> Null]
  ELSE
    [alignment |-> "aligned", warning |-> Null, recommendation |-> Null]

\* the if / else-if chain Rule 1 .. Rule 7; alignment, warning and recommendation
\* keep their initial values when no branch is taken
analyzeAlignment(taskStatus, evidence, now) ==
  IF isDone(taskStatus) /\ ~hasEvidence(evidence) THEN
    [alignment |-> "misaligned",
     warning |-> <<"T", "a", "s", "k", " ", "m", "a", "r", "k", "e", "d", " ", "a", "s", " ">> \o taskStatus \o <<" ", "b", "u", "t", " ", "n", "o", " ", "c", "o", "d", "e", " ", "e", "v", "i", "d", "e", "n", "c", "e", " ", "f", "o", "u", "n", "d">>,
     recommendation |-> <<"V", "e", "r", "i", "f", "y", " ", "t", "a", "s", "k", " ", "s", "t", "a", "t", "u", "s", " ", "o", "r", " ", "s", "e", "a", "r", "c", "h", " ", "f", "o", "r", " ", "a", "l", "t", "e", "r", "n", "a", "t", "i", "v", "e", " ", "t", "a", "s", "k", " ", "k", "e", "y", "s", "/", "d", "e", "s", "c", "r", "i", "p", "t", "i", "o", "n", "s">>]
  ELSE IF isDone(taskStatus) /\ hasEvidence(evidence) THEN
    [alignment |-> "aligned", warning |-> Null, recommendation |-> Null]
  ELSE IF isInProgress(taskStatus) /\ ~hasEvidence(evidence) THEN
    [alignment |-> "misaligned",
     warning |-> <<"T", "a", "s", "k", " ", "m", "a", "r", "k", "e", "d", " ", "a", "s", " ">> \o taskStatus
                 \o <<" ", "b", "u", "t", " ", "n", "o", " ", "c", "o", "d", "e", " ", "e", "v", "i", "d", "e", "n", "c", "e", " ", "f", "o", "u", "n", "d", " ", "(", "n", "o", " ", "c", "o", "m", "m", "i", "t", "s", ",", " ", "b", "r", "a", "n", "c", "h", "e", "s", ",", " ", "o", "r", " ", "P", "R", "s", ")">>,
     recommendation |-> <<"T", "a", "s", "k", " ", "m", "a", "y", " ", "n", "o", "t", " ", "h", "a", "v", "e", " ", "b", "e", "e", "n", " ", "s", "t", "a", "r", "t", "e", "d", " ", "y", "e", "t", ",", " ", "o", "r", " ", "e", "v", "i", "d", "e", "n", "c", "e", " ", "i", "s", " ", "i", "n", " ", "a", " ", "d", "i", "f", "f", "e", "r", "e", "n", "t", " ", "r", "e", "p", "o", "s", "i", "t", "o", "r", "y">>]
  ELSE IF isInProgress(taskStatus) /\ hasEvidence(evidence) THEN
    IF /\ Len(evidence.commits) > 0
       /\ Len(recentCommits(evidence, now)) > 0
       /\ hasCompletionKeywords(evidence, now) \/ hasMergedPRs(evidence)
    THEN
      [alignment |-> "misaligned",
       warning |-> <<"T", "a", "s", "k", " ", "I", "N", " ", "P", "R", "O", "G", "R", "E", "S", "S", " ", "b", "u", "t", " ", "c", "o", "d", "e", " ", "a", "p", "p", "e", "a", "r", "s", " ", "c", "o", "m", "p", "l", "e", "t", "e", " ", "(", "c", "o", "m", "m", "i", "t", "s", " ", "w", "i", "t", "h", " ", "c", "o", "m", "p", "l", "e", "t", "i", "o", "n", " ", "k", "e", "y", "w", "o", "r", "d", "s", " ", "f", "o", "u", "n", "d">>
                   \o (IF hasMergedPRs(evidence) THEN <<",", " ", "P", "R", "s", " ", "m", "e", "r", "g", "e", "d">> ELSE <<>>) \o <<")">>,
       recommendation |-> <<"U", "p", "d", "a", "t", "e", " ", "J", "i", "r", "a", " ", "s", "t", "a", "t", "u", "s", " ", "t", "o", " ", "D", "O", "N", "E">>]
    ELSE
      [alignment |-> "aligned", warning |-> Null, recommendation |-> Null]
  ELSE IF isToDo(taskStatus) /\ hasEvidence(evidence) THEN
    [alignment |-> "misaligned",
     warning |-> <<"T", "a", "s", "k", " ", "T", "O", " ", "D", "O", " ", "b", "u", "t", " ", "c", "o", "d", "e", " ", "a", "l", "r", "e", "a", "d", "y", " ", "e", "x", "i", "s", "t", "s">>,
     recommendation |-> <<"U", "p", "d", "a", "t", "e", " ", "J", "i", "r", "a", " ", "s", "t", "a", "t", "u", "s", " ", "t", "o", " ", "I", "N", " ", "P", "R", "O", "G", "R", "E", "S", "S", " ", "o", "r", " ", "D", "O", "N", "E">>]
  ELSE
    [alignment |-> "aligned", warning |-> Null, recommendation |-> Null]

(***************************************************************************)
(* Alignment score (index.cjs 2472-2475)                                   *)
(*   Math.round((alignedCount / totalTasks) * 100)                         *)
(* computed in IEEE 754 double precision as JavaScript does.  A positive   *)
(* double is [head, limbs, e]: its value is (head + fraction) / 2^e, the   *)
(* fraction written in LimbCount digits of LimbBits bits; head and the     *)
(* fraction bits in use make up the MantissaBits significand bits.         *)
(***************************************************************************)
MantissaBits == 53

LimbCount == 4

LimbBits == (MantissaBits - 1) \div LimbCount

RECURSIVE pow2(_)
pow2(n) == IF n = 0 THEN 1 ELSE 2 * pow2(n - 1)

LimbBase == pow2(LimbBits)

\* the number of bits of a positive integer
bitLength(h) == CHOOSE n \in 1..30 : pow2(n - 1) <= h /\ h < pow2(n)

\* limbs + 1 in the last place, the same length (all zeros on overflow)
RECURSIVE incrementLimbs(_)
incrementLimbs(limbs) ==
  IF limbs = <<>> THEN <<>>
  ELSE LET front == SubSeq(limbs, 1, Len(limbs) - 1)
           last == limbs[Len(limbs)]
       IN  IF last + 1 < LimbBase THEN Append(front, last + 1)
           ELSE Append(incrementLimbs(front), 0)

\* round to nearest, ties to even, dropping the lowest `drop` fraction bits
\* (drop < LimbBits); sticky tells whether bits below the fraction are set
roundToEven(head, limbs, e, drop, sticky) ==
  LET unit == pow2(drop)
      last == limbs[LimbCount]
      low == last % unit
      kept == [limbs EXCEPT ![LimbCount] = last - low]
      guard == IF drop = 0 THEN sticky.guard ELSE low >= unit \div 2
      below == IF drop = 0 THEN sticky.below
               ELSE sticky.guard \/ sticky.below \/ low % (unit \div 2) # 0
      odd == (last \div unit) % 2 = 1
      full == \A i \in 1..(LimbCount - 1) : limbs[i] = LimbBase - 1
  IN  IF guard /\ (below \/ odd)
      THEN IF last - low + unit < LimbBase
           THEN [head |-> head, limbs |-> [kept EXCEPT ![LimbCount] = last - low + unit], e |-> e]
           ELSE [head |-> IF full THEN head + 1 ELSE head,
                 limbs |-> Append(incrementLimbs(SubSeq(limbs, 1, LimbCount - 1)), 0),
                 e |-> e]
      ELSE [head |-> head, limbs |-> kept, e |-> e]

\* the fraction digits of rem / den by long division (rem < den)
RECURSIVE quotientLimbs(_, _, _)
quotientLimbs(rem, den, n) ==
  IF n = 0 THEN [limbs |-> <<>>, rem |-> rem]
  ELSE LET rest == quotientLimbs((rem * LimbBase) % den, den, n - 1)
       IN  [limbs |-> <<(rem * LimbBase) \div den>> \o rest.limbs, rem |-> rest.rem]

\* the double nearest to num / den, for 0 < num <= den
divideDouble(num, den) ==
  LET e == CHOOSE k \in 0..30 : num * pow2(k) >= den /\ (k = 0 \/ num * pow2(k - 1) < den)
      q == quotientLimbs(num * pow2(e) - den, den, LimbCount)
  IN  roundToEven(1, q.limbs, e, 0,
                  [guard |-> 2 * q.rem >= den, below |-> 2 * q.rem # den /\ q.rem # 0])

\* limbs * k + carry: the digits of the product and the carry out of them
RECURSIVE timesLimbs(_, _, _)
timesLimbs(limbs, k, carry) ==
  IF limbs = <<>> THEN [limbs |-> <<>>, carry |-> carry]
  ELSE LET v == limbs[Len(limbs)] * k + carry
           rest == timesLimbs(SubSeq(limbs, 1, Len(limbs) - 1), k, v \div LimbBase)
       IN  [limbs |-> Append(rest.limbs, v % LimbBase), carry |-> rest.carry]

\* the double nearest to x * k, for a small positive integer k
timesDouble(x, k) ==
  LET product == timesLimbs(x.limbs, k, 0)
      head == x.head * k + product.carry
      used == MantissaBits - bitLength(x.head)
  IN  roundToEven(head, product.limbs, x.e, LimbCount * LimbBits - used
                                            + bitLength(head) - bitLength(x.head),
                  [guard |-> FALSE, below |-> FALSE])

\* Math.round of a positive double: floor(x + 1/2)
mathRound(x) ==
  IF x.e = 0 THEN x.head + (IF x.limbs[1] >= LimbBase \div 2 THEN 1 ELSE 0)
  ELSE (x.head + pow2(x.e - 1)) \div pow2(x.e)

Percent == 100

\* totalTasks > 0 ? Math.round((alignedCount / totalTasks) * 100) : 0
alignmentScore(alignedCount, totalTasks) ==
  IF totalTasks > 0
  THEN IF alignedCount = 0 THEN 0
       ELSE mathRound(timesDouble(divideDouble(alignedCount, totalTasks), Percent))
  ELSE 0

(***************************************************************************)
(* The upstream data the model draws responses from                        *)
(***************************************************************************)
Issue5 == [key |-> <<"S", "C", "R", "U", "M", "-", "5">>, status |-> <<"D", "o", "n", "e">>, summary |-> <<"F", "i", "x", " ", "l", "o", "g", "i", "n", " ", "b", "u", "g">>]

Issue6 == [key |-> <<"S", "C", "R", "U", "M", "-", "6">>, status |-> <<"D", "o", "n", "e">>, summary |-> <<"U", "p", "d", "a", "t", "e", " ", "d", "o", "c", "s">>]

Issue7 == [key |-> <<"S", "C", "R", "U", "M", "-", "7">>, status |-> <<"I", "n", " ", "P", "r", "o", "g", "r", "e", "s", "s">>, summary |-> <<"I", "m", "p", "l", "e", "m", "e", "n", "t", " ", "p", "a", "r", "s", "e", "r">>]

Issue8 == [key |-> <<"S", "C", "R", "U", "M", "-", "8">>, status |-> <<"T", "o", " ", "D", "o">>, summary |-> <<"D", "r", "a", "f", "t", " ", "r", "e", "p", "o", "r", "t">>]

\* an issue without status and without summary
Issue9 == [key |-> <<"S", "C", "R", "U", "M", "-", "9">>, status |-> <<>>, summary |-> <<>>]

pageSize == 50

PageMixed == <<Issue5, Issue7>>

RECURSIVE repeat(_, _)
repeat(x, n) == IF n = 0 THEN <<>> ELSE Append(repeat(x, n - 1), x)

\* a full page: pageSize issues
PageFullToDo == repeat(Issue8, pageSize)

\* what one issue-page request may return (issuesData.issues)
IssuePages == {<<>>, PageMixed, PageFullToDo}

\* what the JQL search may return (searchData.issues)
SearchResults == {<<>>, <<Issue6, Issue8, Issue9>>}

\* what the board list of a project may return (boardsData.values): board ids
BoardLists == {<<>>, <<1>>, <<1, 2>>}

ProjectScrum == [key |-> <<"S", "C", "R", "U", "M">>, name |-> <<"S", "c", "r", "u", "m", " ", "B", "o", "a", "r", "d">>]

ProjectBackend == [key |-> <<"B", "K", "N", "D">>, name |-> <<"B", "a", "c", "k", "e", "n", "d", " ", "S", "c", "r", "u", "m", " ", "T", "e", "a", "m">>]

\* what the project search may return (projectsData.values)
ProjectLists == {<<>>, <<ProjectBackend, ProjectScrum>>}

Today == 100

CommitFix5 == [message |-> <<"f", "i", "x", " ", "S", "C", "R", "U", "M", "-", "5", " ", "l", "o", "g", "i", "n", " ", "b", "u", "g">>, date |-> Today - 2]

\* recent, with none of fix, complete, done, finish, implement, resolve, feat:, add
CommitSmart7 == [message |-> <<"S", "C", "R", "U", "M", "-", "7", " ", "i", "n", "t", "e", "l", "l", "i", "g", "e", "n", "t", " ", "p", "a", "r", "s", "e", "r">>, date |-> Today - 2]

\* no completion keyword in the first line, one in the body
CommitWip7 == [message |-> <<"w", "i", "p", " ", "s", "c", "r", "u", "m", "7", " ", "p", "a", "r", "s", "e", "r", "\n", "\n", "f", "i", "x", " ", "t", "y", "p", "o">>, date |-> Today - 2]

CommitOld7 == [message |-> <<"d", "o", "n", "e", " ", "S", "C", "R", "U", "M", "-", "7">>, date |-> Today - 45]

\* what the commit list may return
CommitPools == {<<CommitFix5, CommitSmart7>>, <<CommitWip7, CommitOld7>>}

PrClosed7 == [title |-> <<"S", "C", "R", "U", "M", "-", "7", " ", "p", "a", "r", "s", "e", "r">>, body |-> <<>>, state |-> "closed"]

PrOpen8 == [title |-> <<"R", "e", "p", "o", "r", "t", " ", "d", "r", "a", "f", "t">>, body |-> <<"d", "r", "a", "f", "t", " ", "o", "f", " ", "t", "h", "e", " ", "r", "e", "p", "o", "r", "t">>, state |-> "open"]

\* the key without its hyphen, one keyword of the task ("fix")
PrHotfix5 == [title |-> <<"s", "c", "r", "u", "m", "5", " ", "h", "o", "t", "f", "i", "x">>, body |-> <<>>, state |-> "open"]

\* what the pull-request list may return
PrPools == {<<PrClosed7, PrOpen8, PrHotfix5>>}

BranchMain == [name |-> <<"m", "a", "i", "n">>]

BranchScrum8 == [name |-> <<"f", "e", "a", "t", "u", "r", "e", "/", "S", "C", "R", "U", "M", "-", "8", "-", "r", "e", "p", "o", "r", "t">>]

\* no key, three keywords of SCRUM-5
BranchLoginFix == [name |-> <<"f", "i", "x", "-", "l", "o", "g", "i", "n", "-", "b", "u", "g">>]

\* six branches cut for one task
BranchesOfScrum5 ==
  << [name |-> <<"S", "C", "R", "U", "M", "-", "5", "-", "a">>], [name |-> <<"S", "C", "R", "U", "M", "-", "5", "-", "b">>], [name |-> <<"S", "C", "R", "U", "M", "-", "5", "-", "c">>],
     [name |-> <<"s", "c", "r", "u", "m", "5", "-", "d">>], [name |-> <<"s", "c", "r", "u", "m", "5", "-", "e">>], [name |-> <<"s", "c", "r", "u", "m", "5", "-", "f">>] >>

\* what the branch list may return
BranchPools == {<<BranchMain, BranchScrum8, BranchLoginFix>>, BranchesOfScrum5}

FileA == [path |-> <<"s", "r", "c", "/", "a", ".", "j", "s">>, url |-> <<"u", "1">>]

\* what one code search may return (codeResults.items)
\* no item, or three items of which two have the same path
CodeResults ==
  {<<>>, <<FileA, [path |-> <<"s", "r", "c", "/", "a", ".", "j", "s">>, url |-> <<"u", "2">>], [path |-> <<"s", "r", "c", "/", "b", ".", "j", "s">>, url |-> <<"u", "3">>]>>}

\* req.body.project values
ProjectHints == {<<>>, <<"s", "c", "r", "u", "m">>, <<"s", "p", "a", "c", "e">>}

\* req.body.statuses values
StatusFilters == {<<>>, << <<"d", "o", "n", "e">> >>}

\* the largest req.body.maxTasks the model draws
MaxTasksBound == 2

\* the most issue-page requests the model follows on one board
MaxPageRequests == 3

\* limits.maxRequestsPerMinute (MAX_REQUESTS_PER_MINUTE) of the modelled server
maxRequestsPerMinute == 2

(***************************************************************************)
(* State                                                                   *)
(***************************************************************************)
VARIABLES
  repo,                \* req.body.repo ("" when missing)
  project,             \* req.body.project, then its normalized form
  originalProject,     \* req.body.project as it was sent
  statuses,            \* req.body.statuses
  maxTasks,            \* req.body.maxTasks
  jiraConfigured,      \* JIRA_BASE_URL, JIRA_EMAIL and JIRA_API_TOKEN are all set
  githubAuthenticated, \* githubAuth.authenticated
  now,                 \* Date.now(), in days
  pc,                  \* where the handler is waiting
  actualProjectKey,
  projects,            \* all-projects mode: the projects being enumerated
  projIdx,
  boards,              \* the boards being enumerated
  boardIdx,
  startAt,
  jiraTasks,
  allCommits,
  allPRs,
  allBranches,
  taskIdx,             \* the task of jiraTasks being analysed
  termIdx,             \* the code-search term being tried for it
  keywords,            \* summaryWords of the task being analysed
  aligned,
  misalignments,
  response,            \* what res.json / res.status(..).json sent
  issued,              \* the kinds of upstream request issued so far
  calls,               \* how many times each list of the repository was requested
  failed,              \* the kinds of upstream request that failed (threw or non-2xx)
  lastSearchFailed,    \* whether the latest code search threw
  rateLimit,           \* billingService.usage.rateLimit.minute: how many requests
                       \* of the last minute it holds (shared by all calls)
  alignedCount,        \* inputs and output of the score computation
  totalTasks,
  score

vars ==
  << repo, project, originalProject, statuses, maxTasks, jiraConfigured, githubAuthenticated, now, pc,
     actualProjectKey, projects, projIdx, boards, boardIdx, startAt, jiraTasks,
     allCommits, allPRs, allBranches, taskIdx, termIdx, keywords, aligned,
     misalignments, response, issued, calls, failed, lastSearchFailed, rateLimit, alignedCount,
     totalTasks, score >>

reqVars ==
  << repo, project, originalProject, statuses, maxTasks, jiraConfigured,
     githubAuthenticated, now >>

scoreVars == << alignedCount, totalTasks, score >>

\* the state of the billing service, which every call of the server goes through
sharedVars == << rateLimit >>

NoResponse == [status |-> 0]

PoolKinds == {"commits", "prs", "branches"}

NoCalls == [k \in PoolKinds |-> 0]

historyVars == << issued, calls, failed, lastSearchFailed >>

Init ==
  /\ repo \in {"", "my-repo"}
  /\ project \in ProjectHints
  /\ originalProject = project
  /\ statuses \in StatusFilters
  /\ maxTasks \in 1..MaxTasksBound
  /\ jiraConfigured \in BOOLEAN
  /\ githubAuthenticated \in BOOLEAN
  /\ now = Today
  /\ pc = "start"
  /\ actualProjectKey = <<>>
  /\ projects = <<>>
  /\ projIdx = 0
  /\ boards = <<>>
  /\ boardIdx = 0
  /\ startAt = 0
  /\ jiraTasks = <<>>
  /\ allCommits = <<>>
  /\ allPRs = <<>>
  /\ allBranches = <<>>
  /\ taskIdx = 0
  /\ termIdx = 0
  /\ keywords = <<>>
  /\ aligned = <<>>
  /\ misalignments = <<>>
  /\ response = NoResponse
  /\ issued = {}
  /\ calls = NoCalls
  /\ failed = {}
  /\ lastSearchFailed = FALSE
  /\ rateLimit \in {0, maxRequestsPerMinute}
  /\ alignedCount = 0
  /\ totalTasks = 0
  /\ score = 0

(***************************************************************************)
(* Helpers of the handler                                                  *)
(***************************************************************************)
\* jiraAuthHeader building the header without looking at the three settings
jiraAuthHeaderUnchecked == "Basic"

jiraAuthHeader == IF jiraConfigured THEN "Basic" ELSE "null"

\* project.toUpperCase().replace(/^(PROJECT|SPACE)-?/i, '')
normalizeProject(p) ==
  LET up == toUpperCase(p)
      hasPrefix == startsWith(up, <<"P", "R", "O", "J", "E", "C", "T">>) \/ startsWith(up, <<"S", "P", "A", "C", "E">>)
      rest == IF startsWith(up, <<"P", "R", "O", "J", "E", "C", "T">>) THEN SubSeq(up, 8, Len(up))
              ELSE IF startsWith(up, <<"S", "P", "A", "C", "E">>) THEN SubSeq(up, 6, Len(up))
              ELSE up
  IN  IF hasPrefix /\ rest # <<>> /\ rest[1] = "-" THEN Tail(rest) ELSE rest

\* resolveProjectKey looking at the names before the keys
resolveProjectKeyByNameFirst(list, hint) ==
  LET byKey == {i \in 1..Len(list) : toUpperCase(list[i].key) = toUpperCase(hint)}
      byName == {i \in 1..Len(list) : includes(toUpperCase(list[i].name), toUpperCase(hint))}
      first(S) == CHOOSE i \in S : \A j \in S : i <= j
  IN  IF byName # {} THEN list[first(byName)].key
      ELSE IF byKey # {} THEN list[first(byKey)].key
      ELSE hint

\* projects.find(by key), else projects.find(by name): the key found, or the
\* hint itself when no project matches
resolveProjectKey(list, hint) ==
  LET byKey == {i \in 1..Len(list) : toUpperCase(list[i].key) = toUpperCase(hint)}
      byName == {i \in 1..Len(list) :
                   \/ toUpperCase(list[i].name) = toUpperCase(hint)
                   \/ includes(toUpperCase(list[i].name), toUpperCase(hint))}
      first(S) == CHOOSE i \in S : \A j \in S : i <= j
  IN  IF byKey # {} THEN list[first(byKey)].key
      ELSE IF byName # {} THEN list[first(byName)].key
      ELSE hint

\* statuses.some(s => issueStatus.toLowerCase().includes(s.toLowerCase())),
\* every issue passing when no filter is given
statusAccepted(issue) ==
  \/ statuses = <<>>
  \/ \E k \in 1..Len(statuses) : includes(toLowerCase(issue.status), toLowerCase(statuses[k]))

\* for (const issue of issues) { filter; jiraTasks.push(..); if (length >= maxTasks) break; }
RECURSIVE pushIssues(_, _, _)
pushIssues(tasks, issues, i) ==
  IF i > Len(issues) THEN tasks
  ELSE IF ~statusAccepted(issues[i]) THEN pushIssues(tasks, issues, i + 1)
  ELSE LET pushed == Append(tasks, [key |-> issues[i].key, status |-> issues[i].status,
                                    summary |-> issues[i].summary])
       IN  IF Len(pushed) >= maxTasks THEN pushed ELSE pushIssues(pushed, issues, i + 1)

ErrorResponse(code, message) == [status |-> code, ok |-> FALSE, error |-> message]

\* actualProjectKey || project || 'all'
reportProject == IF actualProjectKey # <<>> THEN actualProjectKey
                 ELSE IF project # <<>> THEN project ELSE <<"a", "l", "l">>

\* the report returned when no task was fetched (2184-2195)
EmptyReport ==
  [status |-> 200, ok |-> TRUE, repository |-> repo, project |-> reportProject,
   tasksAnalyzed |-> 0, aligned |-> <<>>, misalignments |-> <<>>]

\* the report returned after the analysis (2472-2492)
Report(tasks, alignedTasks, misalignedTasks) ==
  [status |-> 200, ok |-> TRUE, repository |-> repo, project |-> reportProject,
   tasksAnalyzed |-> Len(tasks),
   alignmentScore |-> alignmentScore(Len(alignedTasks), Len(tasks)),
   aligned |-> alignedTasks, misalignments |-> misalignedTasks]

\* the request is counted, and its kind noted as failed when it threw or was
\* not 2xx
Issue(kind, ok) ==
  /\ issued' = issued \cup {kind}
  /\ calls' = IF kind \in PoolKinds THEN [calls EXCEPT ![kind] = @ + 1] ELSE calls
  /\ failed' = IF ok THEN failed ELSE failed \cup {kind}
  /\ lastSearchFailed' = (kind = "searchCode" /\ ~ok)

\* Where the task fetch stands after one request: the handler's position,
\* the tasks collected and the loop variables of 1988-2182
FetchState(at, tasks, boardList, board, offset, projectList, proj, sent) ==
  [pc |-> at, jiraTasks |-> tasks, boards |-> boardList, boardIdx |-> board,
   startAt |-> offset, projects |-> projectList, projIdx |-> proj, response |-> sent]

\* 2184-2197: after the task fetch, the empty report or on to the evidence
\* pools; the loop variables are out of scope
FinishFetch(tasks) ==
  IF tasks = <<>>
  THEN FetchState("done", tasks, <<>>, 0, 0, <<>>, 0, EmptyReport)
  ELSE FetchState("commits", tasks, <<>>, 0, 0, <<>>, 0, response)

\* the outer catch (2494-2497)
Crash(message) ==
  FetchState("done", jiraTasks, <<>>, 0, 0, <<>>, 0, ErrorResponse(500, message))

Become(next) ==
  /\ pc' = next.pc
  /\ jiraTasks' = next.jiraTasks
  /\ boards' = next.boards
  /\ boardIdx' = next.boardIdx
  /\ startAt' = next.startAt
  /\ projects' = next.projects
  /\ projIdx' = next.projIdx
  /\ response' = next.response

(***************************************************************************)
(* The handler, one action per await                                       *)
(***************************************************************************)
fetchVars == << actualProjectKey, projects, projIdx, boards, boardIdx, startAt >>

poolVars == << allCommits, allPRs, allBranches >>

analysisVars == << taskIdx, termIdx, keywords, aligned, misalignments >>

\* 1917-1938: the request and credential checks, up to the billing await
CheckRequest ==
  /\ pc = "start"
  /\ IF repo = ""
     THEN pc' = "done" /\ response' = ErrorResponse(400, "Repository name is required")
     ELSE IF jiraAuthHeader = "null"
     THEN pc' = "done" /\ response' = ErrorResponse(400, "Jira is not configured")
     ELSE IF ~githubAuthenticated
     THEN pc' = "done" /\ response' = ErrorResponse(401, "Not authenticated")
     ELSE pc' = "billing" /\ response' = response
  /\ UNCHANGED << reqVars, sharedVars, fetchVars, jiraTasks, poolVars, analysisVars, historyVars,
                  scoreVars >>

\* BillingGate with a rate-limit window of its own for every call: never
\* full, and nothing is left in the shared one
BillingGateWithOwnWindow ==
  /\ pc = "billing"
  /\ \E outcome \in {"allowed", "throws"} :
       IF outcome = "throws"
       THEN /\ pc' = "done"
            /\ response' = ErrorResponse(500, "billing")
            /\ UNCHANGED << project, actualProjectKey >>
       ELSE /\ project' = normalizeProject(project)
            /\ actualProjectKey' = project'
            /\ pc' = IF project' # <<>> THEN "resolve" ELSE "listProjects"
            /\ response' = response
  /\ UNCHANGED << repo, originalProject, statuses, maxTasks, jiraConfigured,
                  githubAuthenticated, now, projects, projIdx, boards, boardIdx,
                  startAt, jiraTasks, poolVars, analysisVars, historyVars, scoreVars,
                  sharedVars >>

\* 1938-1956: billingService.checkAndUpdateUsage('github', 'search'), then the
\* normalization of the project hint. checkRateLimit (billingService.cjs
\* 215-238) blocks the call when the window of the last minute is full and
\* adds the call to it otherwise (the window of the last hour works alike);
\* checkQuota and checkBilling let the service 'github' pass; incrementUsage
\* (242-249) reads this.usage['github'], which the constructor does not
\* create, and throws. The answer "allowed" is kept so that the rest of the
\* handler can be followed.
BillingGate ==
  /\ pc = "billing"
  /\ IF rateLimit >= maxRequestsPerMinute
     THEN /\ pc' = "done"
          /\ response' = [status |-> 403, ok |-> FALSE, blocked |-> TRUE]
          /\ UNCHANGED << project, actualProjectKey, rateLimit >>
     ELSE /\ rateLimit' = rateLimit + 1
          /\ \E outcome \in {"allowed", "throws"} :
               IF outcome = "throws"
               THEN /\ pc' = "done"
                    /\ response' = ErrorResponse(500, "billing")
                    /\ UNCHANGED << project, actualProjectKey >>
               ELSE /\ project' = normalizeProject(project)
                    /\ actualProjectKey' = project'
                    /\ pc' = IF project' # <<>> THEN "resolve" ELSE "listProjects"
                    /\ response' = response
  /\ UNCHANGED << repo, originalProject, statuses, maxTasks, jiraConfigured,
                  githubAuthenticated, now, projects, projIdx, boards, boardIdx,
                  startAt, jiraTasks, poolVars, analysisVars, historyVars, scoreVars >>

\* 1958-1986: the project search that resolves the hint; it is not inside a
\* try block of its own, so a thrown error reaches the outer catch (2494)
ResolveProject ==
  /\ pc = "resolve"
  /\ \/ \E list \in ProjectLists :
          /\ Issue("projects", TRUE)
          /\ actualProjectKey' = resolveProjectKey(list, project)
          /\ Become(FetchState("boards", jiraTasks, <<>>, 0, 0, list, 0, response))
     \/ \* not 2xx: the hint is kept as the key
        /\ Issue("projects", FALSE)
        /\ Become(FetchState("boards", jiraTasks, <<>>, 0, 0, <<>>, 0, response))
        /\ UNCHANGED actualProjectKey
     \/ \* thrown
        /\ Issue("projects", FALSE)
        /\ Become(Crash("fetch failed"))
        /\ UNCHANGED actualProjectKey
  /\ UNCHANGED << reqVars, sharedVars, poolVars, analysisVars, scoreVars >>

\* 2062-2063: after the board loop, the search fallback when nothing was fetched
AfterBoards(tasks) ==
  IF tasks = <<>>
  THEN FetchState("search", tasks, <<>>, 0, 0, <<>>, 0, response)
  ELSE FinishFetch(tasks)

\* 2002, 2058: on to the next board of the project, if any
NextBoard(tasks) ==
  IF boardIdx < Len(boards)
  THEN FetchState("page", tasks, boards, boardIdx + 1, 0, <<>>, 0, response)
  ELSE AfterBoards(tasks)

\* 1988-2000: the boards of the resolved project
FetchBoards ==
  /\ pc = "boards"
  /\ \/ \E list \in BoardLists :
          /\ Issue("boards", TRUE)
          /\ Become(IF list = <<>> THEN AfterBoards(jiraTasks)
                    ELSE FetchState("page", jiraTasks, list, 1, 0, <<>>, 0, response))
     \/ \* not 2xx: no board is enumerated
        /\ Issue("boards", FALSE)
        /\ Become(AfterBoards(jiraTasks))
     \/ \* thrown: the catch at 2084 skips the search fallback
        /\ Issue("boards", FALSE)
        /\ Become(FinishFetch(jiraTasks))
  /\ UNCHANGED << reqVars, sharedVars, actualProjectKey, poolVars, analysisVars, scoreVars >>

\* 2014-2055: the issues of one page are pushed; then the same board's next
\* page, the next board, or the end of the board loop
AfterPage(issues) ==
  LET tasks == pushIssues(jiraTasks, issues, 1)
      hasMore == Len(issues) = pageSize /\ Len(tasks) < maxTasks
  IN  IF issues = <<>> THEN NextBoard(jiraTasks)
      ELSE IF Len(tasks) >= maxTasks THEN AfterBoards(tasks)
      ELSE IF hasMore
           THEN FetchState("page", tasks, boards, boardIdx, startAt + pageSize, <<>>, 0,
                           response)
           ELSE NextBoard(tasks)

\* 2008-2056: one page of the current board
FetchPage ==
  /\ pc = "page"
  /\ startAt < MaxPageRequests * pageSize
  /\ \/ \E issues \in IssuePages :
          /\ Issue("page", TRUE)
          /\ Become(AfterPage(issues))
     \/ \* not 2xx: hasMore = false
        /\ Issue("page", FALSE)
        /\ Become(NextBoard(jiraTasks))
     \/ \* thrown: the catch at 2084
        /\ Issue("page", FALSE)
        /\ Become(FinishFetch(jiraTasks))
  /\ UNCHANGED << reqVars, sharedVars, actualProjectKey, poolVars, analysisVars, scoreVars >>

\* 2063-2083: the JQL search; its issues replace jiraTasks as they come
SearchFallback ==
  /\ pc = "search"
  /\ \/ \E issues \in SearchResults :
          /\ Issue("search", TRUE)
          /\ Become(FinishFetch(issues))
     \/ \* not 2xx, or thrown and caught at 2084
        /\ Issue("search", FALSE)
        /\ Become(FinishFetch(jiraTasks))
  /\ UNCHANGED << reqVars, sharedVars, actualProjectKey, poolVars, analysisVars, scoreVars >>

\* NextProject without the break at 2177
NextProjectWhateverTheTotal(tasks) ==
  IF projIdx < Len(projects)
  THEN FetchState("apBoards", tasks, <<>>, 0, 0, projects, projIdx + 1, response)
  ELSE FinishFetch(tasks)

\* 2101, 2177: on to the next project, unless maxTasks is reached
NextProject(tasks) ==
  IF Len(tasks) < maxTasks /\ projIdx < Len(projects)
  THEN FetchState("apBoards", tasks, <<>>, 0, 0, projects, projIdx + 1, response)
  ELSE FinishFetch(tasks)

\* 2114, 2170: on to the next board of the current project, if any
ApNextBoard(tasks) ==
  IF boardIdx < Len(boards)
  THEN FetchState("apPage", tasks, boards, boardIdx + 1, 0, projects, projIdx, response)
  ELSE NextProject(tasks)

\* 2088-2101: all-projects mode, the project search; not inside a try block of
\* its own either
ListProjects ==
  /\ pc = "listProjects"
  /\ \/ \E list \in ProjectLists :
          /\ Issue("projects", TRUE)
          /\ Become(IF list = <<>> THEN FinishFetch(jiraTasks)
                    ELSE FetchState("apBoards", jiraTasks, <<>>, 0, 0, list, 1, response))
     \/ \* not 2xx: no project is enumerated
        /\ Issue("projects", FALSE)
        /\ Become(FinishFetch(jiraTasks))
     \/ \* thrown
        /\ Issue("projects", FALSE)
        /\ Become(Crash("fetch failed"))
  /\ UNCHANGED << reqVars, sharedVars, actualProjectKey, poolVars, analysisVars, scoreVars >>

\* 2102-2112: the boards of the current project
ApFetchBoards ==
  /\ pc = "apBoards"
  /\ \/ \E list \in BoardLists :
          /\ Issue("boards", TRUE)
          /\ Become(IF list = <<>> THEN NextProject(jiraTasks)
                    ELSE FetchState("apPage", jiraTasks, list, 1, 0, projects, projIdx,
                                    response))
     \/ \* not 2xx, or thrown and caught at 2173
        /\ Issue("boards", FALSE)
        /\ Become(NextProject(jiraTasks))
  /\ UNCHANGED << reqVars, sharedVars, actualProjectKey, poolVars, analysisVars, scoreVars >>

\* 2126-2167: as AfterPage, inside the project loop
ApAfterPage(issues) ==
  LET tasks == pushIssues(jiraTasks, issues, 1)
      hasMore == Len(issues) = pageSize /\ Len(tasks) < maxTasks
  IN  IF issues = <<>> THEN ApNextBoard(jiraTasks)
      ELSE IF Len(tasks) >= maxTasks THEN NextProject(tasks)
      ELSE IF hasMore
           THEN FetchState("apPage", tasks, boards, boardIdx, startAt + pageSize,
                           projects, projIdx, response)
           ELSE ApNextBoard(tasks)

\* 2120-2168: one page of the current board of the current project
ApFetchPage ==
  /\ pc = "apPage"
  /\ startAt < MaxPageRequests * pageSize
  /\ \/ \E issues \in IssuePages :
          /\ Issue("page", TRUE)
          /\ Become(ApAfterPage(issues))
     \/ \* not 2xx: hasMore = false
        /\ Issue("page", FALSE)
        /\ Become(ApNextBoard(jiraTasks))
     \/ \* thrown: the catch at 2173, then the next project
        /\ Issue("page", FALSE)
        /\ Become(NextProject(jiraTasks))
  /\ UNCHANGED << reqVars, sharedVars, actualProjectKey, poolVars, analysisVars, scoreVars >>

\* 2206-2213: the commit list, an empty pool when it throws
FetchCommits ==
  /\ pc = "commits"
  /\ \/ \E pool \in CommitPools :
          Issue("commits", TRUE) /\ allCommits' = pool
     \/ Issue("commits", FALSE) /\ allCommits' = <<>>
  /\ pc' = "prs"
  /\ UNCHANGED << reqVars, sharedVars, fetchVars, jiraTasks, allPRs, allBranches, analysisVars,
                  response, scoreVars >>

\* FetchPRs without the try / catch around the request
FetchPRsUnguarded ==
  /\ pc = "prs"
  /\ \/ \E pool \in PrPools :
          Issue("prs", TRUE) /\ allPRs' = pool /\ pc' = "branches" /\ response' = response
     \/ /\ Issue("prs", FALSE)
        /\ allPRs' = <<>>
        /\ pc' = "done"
        /\ response' = ErrorResponse(500, "fetch failed")
  /\ UNCHANGED << reqVars, sharedVars, fetchVars, jiraTasks, allCommits, allBranches, analysisVars,
                  scoreVars >>

\* 2215-2222: the pull-request list, an empty pool when it throws
FetchPRs ==
  /\ pc = "prs"
  /\ \/ \E pool \in PrPools :
          Issue("prs", TRUE) /\ allPRs' = pool
     \/ Issue("prs", FALSE) /\ allPRs' = <<>>
  /\ pc' = "branches"
  /\ UNCHANGED << reqVars, sharedVars, fetchVars, jiraTasks, allCommits, allBranches, analysisVars,
                  response, scoreVars >>

\* 2224-2234: the branch list, an empty pool when it throws; then the first task
FetchBranches ==
  /\ pc = "branches"
  /\ \/ \E pool \in BranchPools :
          Issue("branches", TRUE) /\ allBranches' = pool
     \/ Issue("branches", FALSE) /\ allBranches' = <<>>
  /\ pc' = "task"
  /\ taskIdx' = 1
  /\ termIdx' = 1
  /\ keywords' = summaryWords(taskSummaryOf(jiraTasks[1]))
  /\ UNCHANGED << reqVars, sharedVars, fetchVars, jiraTasks, allCommits, allPRs, aligned,
                  misalignments, response, scoreVars >>

MaxSearchTerms == 2

MaxCodeResults == 3

\* searchTerms without the .slice(0, 2) of the loop
searchTermsUnlimited(task) ==
  LET isTruthy(term) == term # <<>>
  IN  SelectSeq(<<task.key>> \o slice(summaryWords(taskSummaryOf(task)), 2), isTruthy)

\* [taskKey, ...summaryWords.slice(0, 2)].filter(Boolean), then .slice(0, 2)
searchTerms(task) ==
  LET isTruthy(term) == term # <<>>
  IN  slice(SelectSeq(<<task.key>> \o slice(summaryWords(taskSummaryOf(task)), 2), isTruthy),
            MaxSearchTerms)

\* 2250-2336 and the code matches of 2346-2360
evidenceOf(task, items) ==
  [commits |-> evidenceCommits(task, allCommits),
   prs |-> evidencePrs(task, allPRs),
   branches |-> evidenceBranches(task, allBranches),
   codeMatches |-> dedupeCodeMatches(slice(items, MaxCodeResults))]

\* 2447-2463: the task's entry in the report
taskEntry(task, evidence, verdict) ==
  [key |-> task.key,
   summary |-> taskSummaryOf(task),
   status |-> taskStatusOf(task),
   evidence |-> [commits |-> Len(evidence.commits), prs |-> Len(evidence.prs),
                 branches |-> Len(evidence.branches),
                 codeMatches |-> Len(evidence.codeMatches)],
   evidenceDetails |-> evidence,
   alignment |-> verdict.alignment,
   warning |-> verdict.warning,
   recommendation |-> verdict.recommendation]

\* 2365-2445: the verdict on the evidence gathered for the task
judge(task, evidence) ==
  taskEntry(task, evidence, analyzeAlignment(taskStatusOf(task), evidence, now))

taskResult(task, items) == judge(task, evidenceOf(task, items))

\* pushResult putting the result in front of the list (unshift)
pushResultInFront(list, result, isAligned) ==
  IF (result.alignment = "aligned") = isAligned THEN <<result>> \o list ELSE list

\* 2465-2469: aligned.push(taskResult) or misalignments.push(taskResult)
pushResult(list, result, isAligned) ==
  IF (result.alignment = "aligned") = isAligned THEN Append(list, result) ELSE list

\* File with the three lists fetched inside the task loop: the next task starts
\* at the commit list
FileThenRefetch(result) ==
  /\ aligned' = pushResult(aligned, result, TRUE)
  /\ misalignments' = pushResult(misalignments, result, FALSE)
  /\ IF taskIdx < Len(jiraTasks)
     THEN /\ taskIdx' = taskIdx + 1
          /\ termIdx' = 1
          /\ keywords' = summaryWords(taskSummaryOf(jiraTasks[taskIdx + 1]))
          /\ pc' = "commits"
          /\ UNCHANGED << response, scoreVars >>
     ELSE /\ pc' = "done"
          /\ totalTasks' = Len(jiraTasks)
          /\ alignedCount' = Len(aligned')
          /\ response' = Report(jiraTasks, aligned', misalignments')
          /\ score' = response'.alignmentScore
          /\ UNCHANGED << taskIdx, termIdx, keywords >>

\* 2465-2492: the task's result is filed, and the next task starts or the
\* report is sent
File(result) ==
  /\ aligned' = pushResult(aligned, result, TRUE)
  /\ misalignments' = pushResult(misalignments, result, FALSE)
  /\ IF taskIdx < Len(jiraTasks)
     THEN /\ taskIdx' = taskIdx + 1
          /\ termIdx' = 1
          /\ keywords' = summaryWords(taskSummaryOf(jiraTasks[taskIdx + 1]))
          /\ UNCHANGED << pc, response, scoreVars >>
     ELSE /\ pc' = "done"
          /\ totalTasks' = Len(jiraTasks)
          /\ alignedCount' = Len(aligned')
          /\ response' = Report(jiraTasks, aligned', misalignments')
          /\ score' = response'.alignmentScore
          /\ UNCHANGED << taskIdx, termIdx, keywords >>

\* 2365-2492: the task is classified with the code matches found
Classify(items) == File(taskResult(jiraTasks[taskIdx], items))

\* the try / catch around one search term: no match, so the next term if any
NextTerm ==
  IF termIdx < Len(searchTerms(jiraTasks[taskIdx]))
  THEN /\ termIdx' = termIdx + 1
       /\ UNCHANGED << taskIdx, keywords, aligned, misalignments, pc, response, scoreVars >>
  ELSE Classify(<<>>)

\* SearchCode without the inner try / catch: a thrown search reaches the
\* outer catch
SearchCodeUnguarded ==
  /\ pc = "task"
  /\ \/ \E items \in CodeResults :
          /\ Issue("searchCode", TRUE)
          /\ IF Len(items) > 0 THEN Classify(items) ELSE NextTerm
     \/ /\ Issue("searchCode", FALSE)
        /\ pc' = "done"
        /\ response' = ErrorResponse(500, "fetch failed")
        /\ UNCHANGED << analysisVars, scoreVars >>
  /\ UNCHANGED << reqVars, sharedVars, fetchVars, jiraTasks, poolVars >>

\* 2338-2363: one code search for the current task
SearchCode ==
  /\ pc = "task"
  /\ \/ \E items \in CodeResults :
          /\ Issue("searchCode", TRUE)
          /\ IF Len(items) > 0 THEN Classify(items) ELSE NextTerm
     \/ \* thrown: swallowed by the inner catch
        /\ Issue("searchCode", FALSE)
        /\ NextTerm
  /\ UNCHANGED << reqVars, sharedVars, fetchVars, jiraTasks, poolVars >>

Next ==
  \/ CheckRequest
  \/ BillingGate
  \/ ResolveProject
  \/ FetchBoards
  \/ FetchPage
  \/ SearchFallback
  \/ ListProjects
  \/ ApFetchBoards
  \/ ApFetchPage
  \/ FetchCommits
  \/ FetchPRs
  \/ FetchBranches
  \/ SearchCode

Spec == Init /\ [][Next]_vars

(***************************************************************************)
(* One call among the other calls of the server: while the call waits, the *)
(* gates of other calls and the passing of time change the shared window.  *)
(* The locals of the other calls are their own and are not followed.       *)
(***************************************************************************)
\* checkRateLimit of another call of any tool of the server, let through
OtherCall ==
  /\ rateLimit < maxRequestsPerMinute
  /\ rateLimit' = rateLimit + 1
  /\ UNCHANGED << reqVars, pc, fetchVars, jiraTasks, poolVars, analysisVars, response,
                  historyVars, scoreVars >>

\* requests of the window grow older than a minute: the filter of the next
\* checkRateLimit drops them
MinutePasses ==
  /\ \E kept \in 0..(rateLimit - 1) : rateLimit' = kept
  /\ UNCHANGED << reqVars, pc, fetchVars, jiraTasks, poolVars, analysisVars, response,
                  historyVars, scoreVars >>

ConcurrentInit ==
  /\ Init
  /\ repo = "my-repo"
  /\ jiraConfigured
  /\ githubAuthenticated
  /\ statuses = <<>>
  /\ maxTasks = 1

ConcurrentNext == Next \/ OtherCall \/ MinutePasses

ConcurrentSpec == ConcurrentInit /\ [][ConcurrentNext]_vars

(***************************************************************************)
(* The score computation on its own (2472-2475): alignedCount of           *)
(* totalTasks tasks were filed under aligned                               *)
(***************************************************************************)
\* the largest number of analysed tasks the score is computed for
ScoreMaxTasks == 40

ScoreInit ==
  /\ repo = "my-repo"
  /\ project = <<>>
  /\ originalProject = <<>>
  /\ statuses = <<>>
  /\ maxTasks = ScoreMaxTasks
  /\ jiraConfigured = TRUE
  /\ githubAuthenticated = TRUE
  /\ now = Today
  /\ pc = "score"
  /\ actualProjectKey = <<>>
  /\ projects = <<>>
  /\ projIdx = 0
  /\ boards = <<>>
  /\ boardIdx = 0
  /\ startAt = 0
  /\ jiraTasks = <<>>
  /\ allCommits = <<>>
  /\ allPRs = <<>>
  /\ allBranches = <<>>
  /\ taskIdx = 0
  /\ termIdx = 0
  /\ keywords = <<>>
  /\ aligned = <<>>
  /\ misalignments = <<>>
  /\ response = NoResponse
  /\ issued = {}
  /\ calls = NoCalls
  /\ failed = {}
  /\ lastSearchFailed = FALSE
  /\ rateLimit = 1
  /\ totalTasks \in 1..ScoreMaxTasks
  /\ alignedCount \in 0..totalTasks
  /\ score = 0

\* const alignmentScore = totalTasks > 0 ? Math.round(...) : 0
ComputeScore ==
  /\ pc = "score"
  /\ score' = alignmentScore(alignedCount, totalTasks)
  /\ pc' = "scored"
  /\ UNCHANGED << reqVars, sharedVars, fetchVars, jiraTasks, poolVars, analysisVars, response,
                  historyVars, alignedCount, totalTasks >>

ScoreNext == ComputeScore

ScoreSpec == ScoreInit /\ [][ScoreNext]_vars

(***************************************************************************)
(* The project resolution on its own (1947-1986), for more hints than the  *)
(* whole handler is followed with                                          *)
(***************************************************************************)
ResolveHints ==
  { <<"s", "c", "r", "u", "m">>, <<"P", "r", "o", "j", "e", "c", "t", "-", "B", "K", "N", "D">>, <<"b", "a", "c", "k", "e", "n", "d">>, <<"s", "c", "r", "u", "m", " ", "t", "e", "a", "m">>, <<"s", "p", "a", "c", "e", "-", "s", "c", "r", "u", "m">>,
    <<"p", "r", "o", "j", "e", "c", "t", "-", "x">>, <<"s", "p", "a", "c", "e", "s", "h", "i", "p">>, <<"z", "e", "t", "a">> }

ResolveInit ==
  /\ repo = "my-repo"
  /\ project \in ResolveHints
  /\ originalProject = project
  /\ statuses \in StatusFilters
  /\ maxTasks \in 1..MaxTasksBound
  /\ jiraConfigured = TRUE
  /\ githubAuthenticated = TRUE
  /\ now = Today
  /\ pc = "billing"
  /\ actualProjectKey = <<>>
  /\ projects = <<>>
  /\ projIdx = 0
  /\ boards = <<>>
  /\ boardIdx = 0
  /\ startAt = 0
  /\ jiraTasks = <<>>
  /\ allCommits = <<>>
  /\ allPRs = <<>>
  /\ allBranches = <<>>
  /\ taskIdx = 0
  /\ termIdx = 0
  /\ keywords = <<>>
  /\ aligned = <<>>
  /\ misalignments = <<>>
  /\ response = NoResponse
  /\ issued = {}
  /\ calls = NoCalls
  /\ failed = {}
  /\ lastSearchFailed = FALSE
  /\ rateLimit \in 0..maxRequestsPerMinute
  /\ alignedCount = 0
  /\ totalTasks = 0
  /\ score = 0

ResolveNext == BillingGate \/ ResolveProject

ResolveSpec == ResolveInit /\ [][ResolveNext]_vars

(***************************************************************************)
(* The task loop on its own (2234-2469), for more summaries than the whole *)
(* handler is followed with: the tasks are fetched, the commit and         *)
(* pull-request lists have failed, the branch list is about to be asked    *)
(***************************************************************************)
KeywordSummaries ==
  { <<"F", "i", "x", " ", "t", "h", "e", " ", "l", "o", "g", "i", "n", " ", "b", "u", "g", ",", " ", "f", "i", "x", " ", "l", "o", "g", "i", "n", " ", "(", "a", "g", "a", "i", "n", ")">>,
    <<"A", "d", "d", " ", "a", " ", "n", "e", "w", " ", "A", "P", "I", " ", "t", "o", " ", "d", "o", " ", "i", "t">>,
    <<"T", "h", "e", " ", "a", "l", "p", "h", "a", " ", "b", "e", "t", "a", " ", "v", "2", " ", "g", "a", "m", "m", "a", " ", "a", "l", "p", "h", "a", " ", "d", "e", "l", "t", "a", " ", "e", "p", "s", "i", "l", "o", "n", " ", "z", "e", "t", "a", " ", "e", "t", "a", " ", "t", "h", "e", "t", "a", " ", "i", "o", "t", "a", " ", "k", "a", "p", "p", "a">>,
    <<"T", "h", "e", " ", "A", "N", "D", " ", "t", "h", "e", " ", "a", "n", "d">>,
    <<"B", "u", "g", " ", "b", "u", "g", " ", "B", "U", "G", " ", "r", "e", "p", "o", "r", "t", ".">>,
    <<".", ".", ".">> }

KeywordInit ==
  /\ repo = "my-repo"
  /\ project = <<>>
  /\ originalProject = <<>>
  /\ statuses = <<>>
  /\ maxTasks = MaxTasksBound
  /\ jiraConfigured = TRUE
  /\ githubAuthenticated = TRUE
  /\ now = Today
  /\ pc = "branches"
  /\ actualProjectKey = <<>>
  /\ projects = <<>>
  /\ projIdx = 0
  /\ boards = <<>>
  /\ boardIdx = 0
  /\ startAt = 0
  /\ \E first \in KeywordSummaries, second \in KeywordSummaries :
       jiraTasks = << [key |-> <<"K", "E", "Y", "-", "1">>, status |-> <<"T", "o", " ", "D", "o">>, summary |-> first],
                      [key |-> <<"K", "E", "Y", "-", "2">>, status |-> <<"D", "o", "n", "e">>, summary |-> second] >>
  /\ allCommits = <<>>
  /\ allPRs = <<>>
  /\ allBranches = <<>>
  /\ taskIdx = 0
  /\ termIdx = 0
  /\ keywords = <<>>
  /\ aligned = <<>>
  /\ misalignments = <<>>
  /\ response = NoResponse
  /\ issued = {"projects", "boards", "page", "commits", "prs"}
  /\ calls = [NoCalls EXCEPT !["commits"] = 1, !["prs"] = 1]
  /\ failed = {"commits", "prs"}
  /\ lastSearchFailed = FALSE
  /\ rateLimit = 1
  /\ alignedCount = 0
  /\ totalTasks = 0
  /\ score = 0

KeywordNext == FetchBranches \/ SearchCode

KeywordSpec == KeywordInit /\ [][KeywordNext]_vars

(***************************************************************************)
(* The pools and the task loop on their own (2206-2492), for status labels *)
(* that pass the tests of several groups: two tasks are fetched and the    *)
(* commit list is about to be asked                                        *)
(***************************************************************************)
RuleInit ==
  /\ repo = "my-repo"
  /\ project = <<>>
  /\ originalProject = <<>>
  /\ statuses = <<>>
  /\ maxTasks = MaxTasksBound
  /\ jiraConfigured = TRUE
  /\ githubAuthenticated = TRUE
  /\ now = Today
  /\ pc = "commits"
  /\ actualProjectKey = <<>>
  /\ projects = <<>>
  /\ projIdx = 0
  /\ boards = <<>>
  /\ boardIdx = 0
  /\ startAt = 0
  /\ \E first, second \in { <<"R", "e", "o", "p", "e", "n", "e", "d", " ", "a", "f", "t", "e", "r", " ", "D", "o", "n", "e">>, <<"R", "e", "s", "o", "l", "v", "e", "d", ",", " ", "i", "n", " ", "p", "r", "o", "g", "r", "e", "s", "s", " ", "a", "g", "a", "i", "n">>,
                            <<"O", "p", "e", "n", " ", "-", " ", "I", "n", " ", "P", "r", "o", "g", "r", "e", "s", "s">>, <<"C", "l", "o", "s", "e", "d", ":", " ", "p", "r", "o", "g", "r", "e", "s", "s", " ", "t", "o", " ", "d", "o">> } :
       jiraTasks = << [key |-> <<"S", "C", "R", "U", "M", "-", "7">>, status |-> first, summary |-> <<"I", "m", "p", "l", "e", "m", "e", "n", "t", " ", "p", "a", "r", "s", "e", "r">>],
                      [key |-> <<"S", "C", "R", "U", "M", "-", "4">>, status |-> second, summary |-> <<"P", "l", "a", "n">>] >>
  /\ allCommits = <<>>
  /\ allPRs = <<>>
  /\ allBranches = <<>>
  /\ taskIdx = 0
  /\ termIdx = 0
  /\ keywords = <<>>
  /\ aligned = <<>>
  /\ misalignments = <<>>
  /\ response = NoResponse
  /\ issued = {"projects", "boards", "page"}
  /\ calls = NoCalls
  /\ failed = {}
  /\ lastSearchFailed = FALSE
  /\ rateLimit = 1
  /\ alignedCount = 0
  /\ totalTasks = 0
  /\ score = 0

RuleNext == FetchCommits \/ FetchPRs \/ FetchBranches \/ SearchCode

RuleSpec == RuleInit /\ [][RuleNext]_vars

(***************************************************************************)
(* Properties                                                              *)
(***************************************************************************)
\* the entries filed so far, under aligned or under misalignments
Results == Range(aligned) \cup Range(misalignments)

\* the counts of an entry's evidence say that some evidence was found
entryHasEvidence(entry) ==
  \/ entry.evidence.commits > 0
  \/ entry.evidence.prs > 0
  \/ entry.evidence.branches > 0
  \/ entry.evidence.codeMatches > 0

\* the status category the rule chain treats a status as: the first of
\* Done, InProgress, Todo whose test the status passes
statusCategory(taskStatus) ==
  IF isDone(taskStatus) THEN "Done"
  ELSE IF isInProgress(taskStatus) THEN "InProgress"
  ELSE IF isToDo(taskStatus) THEN "Todo"
  ELSE "Unknown"

\* the fetched task an entry was made for
taskOf(entry) == CHOOSE task \in Range(jiraTasks) : task.key = entry.key

\* C1: every analysed task whose status category is Done is Misaligned if and
\* only if it has no evidence; when Misaligned its warning states that no code
\* evidence was found, and when Aligned it has no warning.
C1_DoneMisalignedIffNoEvidence ==
  \A entry \in Results :
    statusCategory(entry.status) = "Done" =>
      /\ (entry.alignment = "misaligned") <=> ~entryHasEvidence(entry)
      /\ entry.alignment = "misaligned" =>
           includes(toLowerCase(entry.warning), <<"n", "o", " ", "c", "o", "d", "e", " ", "e", "v", "i", "d", "e", "n", "c", "e", " ", "f", "o", "u", "n", "d">>)
      /\ entry.alignment = "aligned" => entry.warning = Null

\* a Done task without evidence has been filed under misalignments
C1_Witness ==
  \E i \in 1..Len(misalignments) :
    /\ statusCategory(misalignments[i].status) = "Done"
    /\ ~entryHasEvidence(misalignments[i])

\* C2: every analysed task whose status category is Todo is Misaligned if and
\* only if it has evidence.
C2_TodoMisalignedIffEvidence ==
  \A entry \in Results :
    statusCategory(entry.status) = "Todo" =>
      ((entry.alignment = "misaligned") <=> entryHasEvidence(entry))

\* a Todo task with evidence has been filed under misalignments, and a Todo
\* task without evidence under aligned
C2_Witness ==
  /\ \E i \in 1..Len(misalignments) :
       statusCategory(misalignments[i].status) = "Todo" /\ entryHasEvidence(misalignments[i])
  /\ \E i \in 1..Len(aligned) :
       statusCategory(aligned[i].status) = "Todo" /\ ~entryHasEvidence(aligned[i])

\* some message of the commits contains a completion keyword
anyCompletionKeyword(commits) ==
  \E i \in 1..Len(commits) :
    \E k \in 1..Len(completionKeywords) :
      includes(toLowerCase(commits[i].message), completionKeywords[k])

anyClosed(prs) == \E i \in 1..Len(prs) : prs[i].state = "closed"

withinRecentDays(commits) ==
  LET isRecent(c) == now - c.date < RecentDays
  IN  SelectSeq(commits, isRecent)

\* C3, as stated: every In-Progress task with evidence is Misaligned with the
\* recommendation "Update Jira status to DONE" whenever some matched commit of
\* the last 30 days has a message containing a completion keyword, or some
\* matched pull request is closed, whether or not any commit matched.
C3_CompletionSignalMisaligns ==
  \A entry \in Results :
    /\ statusCategory(entry.status) = "InProgress"
    /\ entryHasEvidence(entry)
    /\ \/ anyCompletionKeyword(withinRecentDays(commitMatches(taskOf(entry), allCommits)))
       \/ anyClosed(prMatches(taskOf(entry), allPRs))
    => /\ entry.alignment = "misaligned"
       /\ entry.recommendation = <<"U", "p", "d", "a", "t", "e", " ", "J", "i", "r", "a", " ", "s", "t", "a", "t", "u", "s", " ", "t", "o", " ", "D", "O", "N", "E">>

\* C3, amended: every In-Progress task with evidence is Misaligned with the
\* recommendation "Update Jira status to DONE" whenever at least one of its
\* first five matched commits is of the last 30 days and either the first
\* message line of one of those recent commits contains a completion keyword
\* or one of its first five matched pull requests is closed.
C3_RecentCommitSignalMisaligns ==
  \A entry \in Results :
    /\ statusCategory(entry.status) = "InProgress"
    /\ entryHasEvidence(entry)
    /\ Len(withinRecentDays(evidenceCommits(taskOf(entry), allCommits))) > 0
    /\ \/ anyCompletionKeyword(withinRecentDays(evidenceCommits(taskOf(entry), allCommits)))
       \/ anyClosed(evidencePrs(taskOf(entry), allPRs))
    => /\ entry.alignment = "misaligned"
       /\ entry.recommendation = <<"U", "p", "d", "a", "t", "e", " ", "J", "i", "r", "a", " ", "s", "t", "a", "t", "u", "s", " ", "t", "o", " ", "D", "O", "N", "E">>

\* an In-Progress task whose recent commit names no completion keyword in its
\* first line, and whose pull request is closed, is filed under misalignments
C3_Witness ==
  \E i \in 1..Len(misalignments) :
    /\ statusCategory(misalignments[i].status) = "InProgress"
    /\ misalignments[i].recommendation = <<"U", "p", "d", "a", "t", "e", " ", "J", "i", "r", "a", " ", "s", "t", "a", "t", "u", "s", " ", "t", "o", " ", "D", "O", "N", "E">>
    /\ misalignments[i].evidence.commits > 0
    /\ misalignments[i].evidence.prs > 0
    /\ ~anyCompletionKeyword(withinRecentDays(
          evidenceCommits(taskOf(misalignments[i]), allCommits)))

\* C4: in every report with tasksAnalyzed > 0 the alignment score equals
\* round(100 * |aligned| / tasksAnalyzed), the quotient rounded to the nearest
\* integer with halves rounded up, and is an integer of 0..100; it is 100
\* exactly when no task is misaligned and 0 exactly when no task is aligned.
C4_ScoreIsRoundedPercentage ==
  pc = "scored" /\ totalTasks > 0 =>
    /\ score = (2 * Percent * alignedCount + totalTasks) \div (2 * totalTasks)
    /\ score \in 0..Percent
    /\ (score = Percent) <=> (alignedCount = totalTasks)
    /\ (score = 0) <=> (alignedCount = 0)

\* C5: when no task was fetched the call returns a successful report with
\* tasksAnalyzed = 0, an alignment score field equal to 0, an empty aligned
\* list and an empty misaligned list.
C5_EmptyReportHasZeroScore ==
  pc = "done" /\ response.status = 200 /\ response.tasksAnalyzed = 0 =>
    /\ response.ok
    /\ "alignmentScore" \in DOMAIN response
    /\ response.alignmentScore = 0
    /\ response.aligned = <<>>
    /\ response.misalignments = <<>>

\* C6: once the credential checks have passed and the first upstream request
\* has been issued, the call ends with a report (ok = true), never with an
\* error response, whichever upstream request fails.
C6_UpstreamFailureNeverFailsTheCall ==
  pc = "done" /\ repo # "" /\ jiraConfigured /\ githubAuthenticated /\ issued # {} =>
    response.status = 200 /\ response.ok

\* the error response the handler sent is one of the given errors
respondedWith(errors) ==
  /\ response.status # 200
  /\ "error" \in DOMAIN response
  /\ response.error \in errors

\* C7, as stated: if the Jira credentials or the GitHub credentials are
\* missing, the call returns a configuration error and no upstream request
\* has been issued before that error is returned.
C7_MissingCredentialsGiveConfigurationError ==
  pc = "done" /\ (~jiraConfigured \/ ~githubAuthenticated) =>
    /\ respondedWith({"Jira is not configured", "Not authenticated"})
    /\ issued = {}

\* C7, amended: if the Jira credentials or the GitHub credentials are missing,
\* no upstream request is ever issued and the call returns an error: the
\* missing-repository error when the request names no repository, otherwise
\* the configuration error of the first missing credentials.
C7_MissingCredentialsIssueNoRequest ==
  ~jiraConfigured \/ ~githubAuthenticated =>
    /\ issued = {}
    /\ pc \in {"start", "done"}
    /\ pc = "done" =>
         respondedWith({IF repo = "" THEN "Repository name is required"
                        ELSE IF ~jiraConfigured THEN "Jira is not configured"
                        ELSE "Not authenticated"})

\* a request naming a repository was answered with a configuration error
C7_Witness ==
  /\ pc = "done"
  /\ repo # ""
  /\ ~jiraConfigured \/ ~githubAuthenticated
  /\ respondedWith({"Jira is not configured", "Not authenticated"})
  /\ issued = {}

\* the pool a list request fills
poolOf(kind) ==
  IF kind = "commits" THEN allCommits ELSE IF kind = "prs" THEN allPRs ELSE allBranches

\* the report has one entry for every fetched task
reportCovers(report, tasks) ==
  /\ report.status = 200
  /\ report.ok
  /\ report.tasksAnalyzed = Len(tasks)
  /\ Len(report.aligned) + Len(report.misalignments) = Len(tasks)
  /\ \A i \in 1..Len(tasks) :
       \E entry \in Range(report.aligned) \cup Range(report.misalignments) :
         entry.key = tasks[i].key

\* C8: a failure of the commit, pull-request or branch request leaves that
\* pool empty, does not prevent the other two requests from being attempted,
\* and does not prevent a report covering every fetched task.
C8_PoolFetchesAreFaultIsolated ==
  /\ \A kind \in PoolKinds \cap failed : poolOf(kind) = <<>>
  /\ pc = "done" /\ PoolKinds \cap failed # {} =>
       /\ \A kind \in PoolKinds : calls[kind] = 1
       /\ reportCovers(response, jiraTasks)

\* the pull-request request failed alone, and the report covers two tasks
C8_Witness ==
  /\ pc = "done"
  /\ PoolKinds \cap failed = {"prs"}
  /\ allCommits # <<>>
  /\ allBranches # <<>>
  /\ Len(jiraTasks) >= 2
  /\ reportCovers(response, jiraTasks)

\* C9: within one call the commit list, the pull-request list and the branch
\* list are each requested at most once, however many tasks are analysed, and
\* all three requests happen before the first task is classified.
C9_PoolsRequestedOnceBeforeClassification ==
  /\ \A kind \in PoolKinds : calls[kind] <= 1
  /\ Results # {} \/ "searchCode" \in issued => \A kind \in PoolKinds : calls[kind] = 1

\* two tasks have been classified after one request for each list
C9_Witness ==
  /\ Len(aligned) + Len(misalignments) >= 2
  /\ \A kind \in PoolKinds : calls[kind] = 1

\* the entry the step has just filed, under aligned or under misalignments
filedEntry ==
  IF Len(aligned') > Len(aligned) THEN aligned'[Len(aligned')]
  ELSE misalignments'[Len(misalignments')]

\* a step in which the code search threw: either the next term of the same
\* task is tried, or the task is filed without code matches and the next task
\* starts, or after the last task the report covering every task is sent
searchFailureStep ==
  \/ /\ pc' = "task"
     /\ taskIdx' = taskIdx
     /\ termIdx' = termIdx + 1
     /\ UNCHANGED << aligned, misalignments >>
  \/ /\ Len(aligned') + Len(misalignments') = taskIdx
     /\ Len(aligned) + Len(misalignments) = taskIdx - 1
     /\ filedEntry.key = jiraTasks[taskIdx].key
     /\ filedEntry.evidence.codeMatches = 0
     /\ IF taskIdx < Len(jiraTasks)
        THEN pc' = "task" /\ taskIdx' = taskIdx + 1 /\ termIdx' = 1
        ELSE pc' = "done" /\ reportCovers(response', jiraTasks)

\* C10: a code search that fails for one task yields no code match for that
\* search term and never aborts the batch: the tasks after the failing one are
\* still searched and classified, and every fetched task appears in the
\* report.
C10_SearchFailureIsSwallowed ==
  /\ [][pc = "task" /\ lastSearchFailed' => searchFailureStep]_vars
  /\ [](pc = "done" /\ "searchCode" \in failed => reportCovers(response, jiraTasks))

\* the search for the first task's last term threw, the task was filed, and
\* the handler is at the second task's first search
C10_Witness ==
  /\ pc = "task"
  /\ lastSearchFailed
  /\ taskIdx = 2
  /\ termIdx = 1
  /\ Len(aligned) + Len(misalignments) = 1

\* C11: in every task result, each of the four evidence sequences (commits,
\* pull requests, branches, code matches) has at most 5 entries, however many
\* items of the repository match the task.
C11_EvidenceSequencesAreCapped ==
  \A entry \in Results :
    /\ Len(entry.evidenceDetails.commits) <= MaxEvidenceShown
    /\ Len(entry.evidenceDetails.prs) <= MaxEvidenceShown
    /\ Len(entry.evidenceDetails.branches) <= MaxEvidenceShown
    /\ Len(entry.evidenceDetails.codeMatches) <= MaxEvidenceShown

\* C12: the number of tasks analysed never exceeds maxTasks, on every fetch
\* path and for every upstream response.
C12_TasksNeverExceedMaxTasks ==
  /\ Len(jiraTasks) <= maxTasks
  /\ pc = "done" /\ response.status = 200 => response.tasksAnalyzed <= maxTasks

\* the most issue-page requests one board needs when every full page adds
\* pageSize tasks: a quantity of maxTasks and pageSize alone
pageRequestBound == (maxTasks + pageSize - 1) \div pageSize

\* C13: the issue-page requests issued for one board are bounded by a quantity
\* that depends only on maxTasks and the page size, also when a status filter
\* rejects the issues of the fetched pages (startAt is pageSize times the
\* number of pages the current board has been asked for and answered in full).
C13_PageRequestsBoundedByMaxTasks ==
  pc \in {"page", "apPage"} => startAt \div pageSize < pageRequestBound

\* the keys of the projects whose key equals the hint, case-insensitively
keysByKey(list, hint) ==
  {list[i].key : i \in {j \in 1..Len(list) : toUpperCase(list[j].key) = toUpperCase(hint)}}

\* the keys of the projects whose name equals or contains the hint,
\* case-insensitively
keysByName(list, hint) ==
  {list[i].key : i \in {j \in 1..Len(list) :
                          includes(toLowerCase(list[j].name), toLowerCase(hint))}}

\* the project search of the resolution was answered with the list in projects
resolved == pc = "boards" /\ "projects" \notin failed

\* C14, as stated: the resolution gives the key of a project whose key equals
\* the normalized hint; else the key of a project whose name equals or
\* contains the hint as it was sent, case-insensitively; else the hint as it
\* was sent (whatever its case); and the call goes on.
C14_ResolvesByKeyThenNameThenHint ==
  resolved =>
    /\ response = NoResponse
    /\ IF keysByKey(projects, normalizeProject(originalProject)) # {}
       THEN actualProjectKey \in keysByKey(projects, normalizeProject(originalProject))
       ELSE IF keysByName(projects, originalProject) # {}
       THEN actualProjectKey \in keysByName(projects, originalProject)
       ELSE toUpperCase(actualProjectKey) = toUpperCase(originalProject)

\* C14, amended: the resolution gives the key of a project whose key equals
\* the normalized hint; else the key of a project whose name equals or
\* contains the normalized hint, case-insensitively; else the normalized hint
\* itself; and the call goes on.
C14_ResolvesNormalizedHint ==
  resolved =>
    /\ response = NoResponse
    /\ IF keysByKey(projects, normalizeProject(originalProject)) # {}
       THEN actualProjectKey \in keysByKey(projects, normalizeProject(originalProject))
       ELSE IF keysByName(projects, normalizeProject(originalProject)) # {}
       THEN actualProjectKey \in keysByName(projects, normalizeProject(originalProject))
       ELSE actualProjectKey = normalizeProject(originalProject)

\* a prefixed hint matched no project of a non-empty list and its normalized
\* form became the project key
C14_Witness ==
  /\ resolved
  /\ projects # <<>>
  /\ originalProject = <<"p", "r", "o", "j", "e", "c", "t", "-", "x">>
  /\ actualProjectKey = <<"X">>
  /\ response = NoResponse

\* C15: whenever a non-empty project hint is supplied, boards are enumerated
\* for the single resolved project only: the call never enters the
\* all-projects enumeration.
C15_HintNeverEnumeratesAllProjects ==
  originalProject # <<>> => pc \notin {"listProjects", "apBoards", "apPage"}

\* the place of the first occurrence of a word in a sequence of words
firstIndex(words, word) ==
  CHOOSE i \in 1..Len(words) : words[i] = word /\ \A j \in 1..(i - 1) : words[j] # word

\* C16: the keywords of the task being analysed are at most 8, none is a
\* stop-word, none is shorter than 3 characters, none occurs twice, each is a
\* token of the lowercased summary and they stand in the order of their first
\* occurrence there; and when the next task has the same summary, the
\* extraction gives the same sequence again.
C16_KeywordsAreBoundedCleanOrderedAndStable ==
  /\ [](pc = "task" =>
         LET tokens == split(toLowerCase(taskSummaryOf(jiraTasks[taskIdx])))
         IN  /\ Len(keywords) <= MaxKeywords
             /\ \A i \in 1..Len(keywords) :
                  /\ keywords[i] \notin Range(stopWords)
                  /\ Len(keywords[i]) >= MinWordLength
                  /\ keywords[i] \in Range(tokens)
             /\ \A i, j \in 1..Len(keywords) :
                  i < j => /\ keywords[i] # keywords[j]
                           /\ firstIndex(tokens, keywords[i]) < firstIndex(tokens, keywords[j]))
  /\ [][pc = "task" /\ pc' = "task" /\ taskIdx' # taskIdx
          /\ jiraTasks[taskIdx'].summary = jiraTasks[taskIdx].summary
        => keywords' = keywords]_vars

\* the second of two tasks with one summary is being analysed: a summary with
\* a stop-word, short tokens, a repeated token and more than 8 tokens of which
\* 8 were kept
C16_Witness ==
  /\ pc = "task"
  /\ taskIdx = 2
  /\ jiraTasks[1].summary = jiraTasks[2].summary
  /\ Len(split(toLowerCase(jiraTasks[2].summary))) > MaxKeywords
  /\ Len(keywords) = MaxKeywords

\* C17: while a task whose summary is empty is analysed, its keyword sequence
\* is empty and the only code-search term tried is the task key (the first
\* term), so no evidence comes from a keyword.
C17_EmptySummaryHasNoKeywords ==
  pc = "task" /\ jiraTasks[taskIdx].summary = <<>> => keywords = <<>> /\ termIdx = 1

\* the text contains, case-insensitively, the key verbatim, the key without
\* its hyphen, or the key with a space for its hyphen
containsKey(text, taskKey) ==
  \/ includes(toLowerCase(text), toLowerCase(taskKey))
  \/ includes(toLowerCase(text), toLowerCase(replaceFirst(taskKey, "-", <<>>)))
  \/ includes(toLowerCase(text), toLowerCase(replaceFirst(taskKey, "-", <<" ">>)))

\* the entry's evidence lists the commit, the pull request, the branch
listsCommit(entry, commit) ==
  \E j \in 1..Len(entry.evidenceDetails.commits) :
    entry.evidenceDetails.commits[j] =
      [message |-> firstLine(commit.message), date |-> commit.date]

listsPr(entry, pr) ==
  \E j \in 1..Len(entry.evidenceDetails.prs) :
    entry.evidenceDetails.prs[j] = [title |-> pr.title, state |-> pr.state]

listsBranch(entry, branch) == branch.name \in Range(entry.evidenceDetails.branches)

\* C18: the exact-key clause is the same for the three kinds: every commit,
\* pull request (title and body) and branch of the pools whose text contains
\* one of the three forms of a filed task's key is listed in that task's
\* evidence (the pools hold no more than 5 commits or pull requests).
C18_KeyClauseIsTheSameForAllKinds ==
  \A entry \in Results :
    /\ \A i \in 1..Len(allCommits) :
         containsKey(allCommits[i].message, entry.key) => listsCommit(entry, allCommits[i])
    /\ \A i \in 1..Len(allPRs) :
         containsKey(allPRs[i].title \o <<" ">> \o allPRs[i].body, entry.key)
           => listsPr(entry, allPRs[i])
    /\ \A i \in 1..Len(allBranches) :
         containsKey(allBranches[i].name, entry.key) => listsBranch(entry, allBranches[i])

\* C19: the keyword-overlap clause is the same for the three kinds: a commit,
\* pull request or branch that does not contain the key of a filed task is
\* listed in its evidence exactly when at least 2 of the task's keywords
\* occur in its text (no task of the pools has a key of the domain-hint
\* fallback).
C19_KeywordClauseIsTheSameForAllKinds ==
  \A entry \in Results :
    LET words == summaryWords(entry.summary)
        overlaps(text) == keywordMatches(words, toLowerCase(text)) >= MinKeywordMatches
    IN  /\ \A i \in 1..Len(allCommits) :
             ~containsKey(allCommits[i].message, entry.key) =>
               (listsCommit(entry, allCommits[i]) <=> overlaps(allCommits[i].message))
        /\ \A i \in 1..Len(allPRs) :
             LET text == allPRs[i].title \o <<" ">> \o allPRs[i].body
             IN  ~containsKey(text, entry.key) => (listsPr(entry, allPRs[i]) <=> overlaps(text))
        /\ \A i \in 1..Len(allBranches) :
             ~containsKey(allBranches[i].name, entry.key) =>
               (listsBranch(entry, allBranches[i]) <=> overlaps(allBranches[i].name))

\* the tasks are the entries of the two lists merged, each list in its order
RECURSIVE isMergeOf(_, _, _)
isMergeOf(tasks, alignedEntries, misalignedEntries) ==
  IF tasks = <<>> THEN alignedEntries = <<>> /\ misalignedEntries = <<>>
  ELSE \/ /\ alignedEntries # <<>>
          /\ Head(alignedEntries).key = Head(tasks).key
          /\ isMergeOf(Tail(tasks), Tail(alignedEntries), misalignedEntries)
       \/ /\ misalignedEntries # <<>>
          /\ Head(misalignedEntries).key = Head(tasks).key
          /\ isMergeOf(Tail(tasks), alignedEntries, Tail(misalignedEntries))

\* C20: in every report the two lists partition the analysed tasks: the
\* entries under aligned have the verdict aligned, those under misalignments
\* the verdict misaligned, their numbers add up to tasksAnalyzed, and the
\* fetched task list is the two lists merged with the order of each kept.
C20_ReportPartitionsTheTasksInOrder ==
  pc = "done" /\ response.status = 200 =>
    /\ \A i \in 1..Len(response.aligned) : response.aligned[i].alignment = "aligned"
    /\ \A i \in 1..Len(response.misalignments) :
         response.misalignments[i].alignment = "misaligned"
    /\ Len(response.aligned) + Len(response.misalignments) = response.tasksAnalyzed
    /\ response.tasksAnalyzed = Len(jiraTasks)
    /\ isMergeOf(jiraTasks, response.aligned, response.misalignments)

\* a report of three tasks: the first and the third aligned, the second
\* misaligned
C20_Witness ==
  /\ pc = "done"
  /\ response.status = 200
  /\ response.tasksAnalyzed = 3
  /\ Len(response.aligned) = 2
  /\ Len(response.misalignments) = 1
  /\ response.aligned[1].key = jiraTasks[1].key
  /\ response.misalignments[1].key = jiraTasks[2].key
  /\ response.aligned[2].key = jiraTasks[3].key

C22_InProgressWithoutEvidenceIsMisaligned ==
  \A entry \in Results :
    statusCategory(entry.status) = "InProgress" /\ ~entryHasEvidence(entry) =>
      /\ entry.alignment = "misaligned"
      /\ includes(toLowerCase(entry.warning), <<"n", "o", " ", "c", "o", "d", "e", " ", "e", "v", "i", "d", "e", "n", "c", "e", " ", "f", "o", "u", "n", "d">>)
      /\ entry.recommendation # Null
      /\ Len(entry.recommendation) > 0

\* an In-Progress task without evidence has been filed under misalignments
C22_Witness ==
  \E i \in 1..Len(misalignments) :
    /\ statusCategory(misalignments[i].status) = "InProgress"
    /\ ~entryHasEvidence(misalignments[i])

\* C23, as stated: every analysed In-Progress task with evidence is Aligned
\* when its evidence shows no completion signal, a signal being a listed
\* commit of the last 30 days whose message contains one of the eight keywords
\* fix, complete, done, finish, implement, resolve, "feat:", add, or a listed
\* pull request in closed state.
C23_NoSignalOfEightKeywordsIsAligned ==
  \A entry \in Results :
    LET eight == slice(completionKeywords, 8)
        recent == withinRecentDays(entry.evidenceDetails.commits)
        signal == \/ \E i \in 1..Len(recent) : \E k \in 1..Len(eight) :
                       includes(toLowerCase(recent[i].message), eight[k])
                  \/ anyClosed(entry.evidenceDetails.prs)
    IN  statusCategory(entry.status) = "InProgress" /\ entryHasEvidence(entry) /\ ~signal
          => entry.alignment = "aligned"

\* C23, amended: the same with the ten keywords of the code, the eight and
\* intelligent, verification.
C23_NoSignalOfTenKeywordsIsAligned ==
  \A entry \in Results :
    LET recent == withinRecentDays(entry.evidenceDetails.commits)
        signal == anyCompletionKeyword(recent) \/ anyClosed(entry.evidenceDetails.prs)
    IN  statusCategory(entry.status) = "InProgress" /\ entryHasEvidence(entry) /\ ~signal
          => entry.alignment = "aligned" /\ entry.warning = Null

\* an In-Progress task is filed under aligned with a recent commit that has no
\* keyword and a commit with a keyword that is 30 or more days old
C23_Witness ==
  \E i \in 1..Len(aligned) :
    LET commits == aligned[i].evidenceDetails.commits
    IN  /\ statusCategory(aligned[i].status) = "InProgress"
        /\ \E c \in Range(commits) : now - c.date < RecentDays /\ ~anyCompletionKeyword(<<c>>)
        /\ \E c \in Range(commits) : now - c.date >= RecentDays /\ anyCompletionKeyword(<<c>>)

\* C24: every analysed task whose status passes none of the Done, In-Progress
\* and To-Do tests, a task without status included, is Aligned with no warning
\* and no recommendation, with or without evidence.
C24_UnknownStatusIsAligned ==
  \A entry \in Results :
    statusCategory(entry.status) = "Unknown" =>
      /\ entry.alignment = "aligned"
      /\ entry.warning = Null
      /\ entry.recommendation = Null

\* a task without status was analysed with evidence
C24_Witness ==
  \E i \in 1..Len(aligned) :
    /\ taskOf(aligned[i]).status = <<>>
    /\ statusCategory(aligned[i].status) = "Unknown"
    /\ entryHasEvidence(aligned[i])

\* C25: every analysed task has the outcome of the one row of the rule table
\* that belongs to its status category and its evidence, the category being
\* Done when the label passes the Done test, else InProgress when it passes
\* that test, else Todo, else Unknown; and no task is filed twice.
C25_OneRowDecidesByPrecedence ==
  /\ \A entry \in Results :
       LET category == statusCategory(entry.status)
           clear == entry.alignment = "aligned" /\ entry.warning = Null
                    /\ entry.recommendation = Null
           flagged(text) == entry.alignment = "misaligned" /\ entry.recommendation = text
       IN  /\ category = "Done" =>
                IF entryHasEvidence(entry) THEN clear
                ELSE flagged(<<"V", "e", "r", "i", "f", "y", " ", "t", "a", "s", "k", " ", "s", "t", "a", "t", "u", "s", " ", "o", "r", " ", "s", "e", "a", "r", "c", "h", " ", "f", "o", "r", " ", "a", "l", "t", "e", "r", "n", "a", "t", "i", "v", "e", " ", "t", "a", "s", "k", " ", "k", "e", "y", "s", "/", "d", "e", "s", "c", "r", "i", "p", "t", "i", "o", "n", "s">>)
           /\ category = "InProgress" =>
                IF entryHasEvidence(entry)
                THEN clear \/ flagged(<<"U", "p", "d", "a", "t", "e", " ", "J", "i", "r", "a", " ", "s", "t", "a", "t", "u", "s", " ", "t", "o", " ", "D", "O", "N", "E">>)
                ELSE flagged(<<"T", "a", "s", "k", " ", "m", "a", "y", " ", "n", "o", "t", " ", "h", "a", "v", "e", " ", "b", "e", "e", "n", " ", "s", "t", "a", "r", "t", "e", "d", " ", "y", "e", "t", ",", " ", "o", "r", " ", "e", "v", "i", "d", "e", "n", "c", "e", " ", "i", "s", " ", "i", "n", " ", "a", " ", "d", "i", "f", "f", "e", "r", "e", "n", "t", " ", "r", "e", "p", "o", "s", "i", "t", "o", "r", "y">>)
           /\ category = "Todo" =>
                IF entryHasEvidence(entry)
                THEN flagged(<<"U", "p", "d", "a", "t", "e", " ", "J", "i", "r", "a", " ", "s", "t", "a", "t", "u", "s", " ", "t", "o", " ", "I", "N", " ", "P", "R", "O", "G", "R", "E", "S", "S", " ", "o", "r", " ", "D", "O", "N", "E">>)
                ELSE clear
           /\ category = "Unknown" => clear
  /\ Len(aligned) + Len(misalignments) <= Len(jiraTasks)
  /\ \A i \in 1..Len(aligned) : \A j \in 1..Len(misalignments) :
       aligned[i].key # misalignments[j].key

\* the report holds a task with evidence whose label passes the Done and the
\* To-Do test, and a task whose label passes the In-Progress and the To-Do
\* test but not the Done test
C25_Witness ==
  /\ pc = "done"
  /\ \E entry \in Results :
       isDone(entry.status) /\ isToDo(entry.status) /\ entryHasEvidence(entry)
  /\ \E entry \in Results :
       ~isDone(entry.status) /\ isInProgress(entry.status) /\ isToDo(entry.status)

\* C26: when a status filter is given, the status of every analysed task
\* contains one of the filter strings, case-insensitively, whichever path the
\* task was fetched on.
C26_AnalysedTasksPassTheStatusFilter ==
  \A entry \in Results :
    Len(statuses) > 0 =>
      \E k \in 1..Len(statuses) :
        includes(toLowerCase(entry.status), toLowerCase(statuses[k]))

\* C27: in single-project mode the JQL search is attempted exactly when the
\* board path yielded no task: it is never asked with a task in hand, and once
\* the task fetch is over either the search was asked or the boards yielded a
\* task, whatever went wrong on the board path.
C27_SearchExactlyWhenBoardsYieldNothing ==
  /\ pc = "search" => jiraTasks = <<>>
  /\ /\ actualProjectKey # <<>>
     /\ "boards" \in issued
     /\ pc \in {"commits", "prs", "branches", "task"} \/ (pc = "done" /\ response.status = 200)
     => "search" \in issued \/ jiraTasks # <<>>

\* C28: in all-projects mode no board list and no issue page is requested once
\* maxTasks tasks are collected; and no request of the project loop, failed or
\* not, loses a collected task or sends an error, and the loop ends only with
\* the last project or with maxTasks tasks.
C28_ProjectLoopStopsAtMaxTasksOnly ==
  /\ [](pc \in {"apBoards", "apPage"} => Len(jiraTasks) < maxTasks)
  /\ [][(pc = "apBoards" \/ pc = "apPage") =>
         ( /\ Len(jiraTasks') >= Len(jiraTasks)
           /\ SubSeq(jiraTasks', 1, Len(jiraTasks)) = jiraTasks
           /\ pc' = "done" => response'.status = 200 /\ jiraTasks' = <<>>
           /\ pc' \notin {"apBoards", "apPage"} =>
                Len(jiraTasks') >= maxTasks \/ projIdx = Len(projects)
           /\ pc' = "apBoards" => projIdx' = projIdx + 1 )]_vars

\* an issue page of the first project failed, and the loop is at the board list
\* of the second project with the tasks of the first
C28_Witness ==
  /\ pc = "apBoards"
  /\ projIdx = 2
  /\ "page" \in failed
  /\ jiraTasks # <<>>
  /\ Len(jiraTasks) < maxTasks

\* C29: for each task at most two code searches are issued, the first with the
\* task key and the second with the task's first keyword; a second search
\* follows only a first one that found nothing or failed, and files no result
\* in between; the code matches of an entry have pairwise different paths.
C29_TwoSearchesKeyThenKeyword ==
  /\ [](pc = "task" =>
          LET terms == searchTerms(jiraTasks[taskIdx])
          IN  /\ termIdx \in 1..2
              /\ termIdx <= Len(terms)
              /\ terms[1] = jiraTasks[taskIdx].key
              /\ termIdx = 2 => terms[2] = keywords[1])
  /\ [][(pc = "task" /\ pc' = "task" /\ taskIdx' = taskIdx) =>
         ( /\ termIdx = 1
           /\ termIdx' = 2
           /\ UNCHANGED << aligned, misalignments >> )]_vars
  /\ [][(pc = "task" /\ (aligned' # aligned \/ misalignments' # misalignments)) =>
         (pc' = "done" \/ (taskIdx' = taskIdx + 1 /\ termIdx' = 1))]_vars
  /\ [](\A entry \in Results :
          LET matches == entry.evidenceDetails.codeMatches
          IN  \A i, j \in 1..Len(matches) : matches[i].path = matches[j].path => i = j)

\* the first search of a task failed and its second search is about to be
\* issued, after an earlier task was filed with the two different paths of a
\* three-item answer
C29_Witness ==
  /\ pc = "task"
  /\ termIdx = 2
  /\ lastSearchFailed
  /\ \E entry \in Results : Len(entry.evidenceDetails.codeMatches) = 2

\* C30: no task key appears twice across the aligned and the misaligned list,
\* also when several boards or projects return the same issue.
C30_ReportKeysAreDistinct ==
  LET filed == aligned \o misalignments
  IN  \A i, j \in 1..Len(filed) : filed[i].key = filed[j].key => i = j
====
